---------------------------- MODULE Spec2Model ----------------------------
(***************************************************************************)
(* A model of the xdg-desktop-entry crate (src/src/lib.rs): the Locale     *)
(* decomposition, the locale resolver of the localized values, the         *)
(* line-oriented parser, the semantic validator and the serializer.        *)
(*                                                                         *)
(* A Rust string is modelled as a sequence of pieces.  A piece is either   *)
(* one character that the code inspects ("[", "]", "=", "#", ";", "_",     *)
(* ".", "@", " ", "\r", "\n") or a word of characters the code never       *)
(* inspects one by one ("Type", "Desktop Entry", "Application", ...).  No  *)
(* word can be spelled with other pieces, so two sequences of pieces are   *)
(* equal exactly when the strings they spell are equal.                    *)
(*                                                                         *)
(* Option<T> is a sequence of length 0 (None) or 1 (Some(v)); a HashMap is *)
(* a function whose DOMAIN is its key set; a Vec is a sequence.            *)
(***************************************************************************)
EXTENDS Integers, Sequences, FiniteSets, TLC

VARIABLES
    \* ---- parse / serialize pipeline
    text,       \* the in-memory text buffer handed to DesktopEntry::parse
    appended,   \* how many lines were added to text after its first lines
    eol,        \* the line terminator the buffer is written with
    pc,         \* where the caller stands: "input", then "parsed", ...
    lines,      \* Parser.lines
    line_num,   \* Parser::parse local: number of the last line looked at
    groups,     \* Parser::parse local, as it stood when the line loop ended
    result,     \* what DesktopEntry::parse returned: [kind, err]
    entry,      \* the DesktopEntry returned when result.kind = "Ok"
    valid,      \* what DesktopEntry::validate returned on entry
    output,     \* what DesktopEntry::serialize returned on entry
    result2,    \* what DesktopEntry::parse returned on output
    entry2,     \* the DesktopEntry returned for output
    \* ---- Locale::from_string / to_string_repr
    token,      \* the last string handed to Locale::from_string
    locale,     \* the Locale it returned
    repr,       \* what to_string_repr returned on locale
    locale2,    \* the Locale Locale::from_string returned on repr
    \* ---- locale resolution
    ty,         \* which localized type self is
    self,       \* a LocalizedString / IconString / LocalizedStringList
    query,      \* the last locale handed to get
    resolved    \* what get returned

vars == <<text, appended, eol, pc, lines, line_num, groups, result, entry, valid,
          output, result2, entry2, token, locale, repr, locale2, ty, self,
          query, resolved>>

parseVars == <<text, appended, eol, pc, lines, line_num, groups, result, entry, valid,
               output, result2, entry2>>
localeVars == <<token, locale, repr, locale2>>
resolveVars == <<ty, self, query, resolved>>

-----------------------------------------------------------------------------
(* Option, maps and strings                                                *)

None == <<>>
Some(v) == <<v>>
IsSome(o) == Len(o) = 1
IsNone(o) == Len(o) = 0
Unwrap(o) == o[1]

EmptyMap == [k \in {} |-> <<>>]
ContainsKey(m, k) == k \in DOMAIN m
MapInsert(m, k, v) == [x \in (DOMAIN m) \cup {k} |-> IF x = k THEN v ELSE m[x]]
MapRemove(m, k) == [x \in (DOMAIN m) \ {k} |-> m[x]]
MapGet(m, k) == IF k \in DOMAIN m THEN Some(m[k]) ELSE None

\* the scan of str::find: the first index >= i holding c, 0 when there is none
RECURSIVE FindFrom(_, _, _)
FindFrom(s, c, i) ==
    IF i > Len(s) THEN 0
    ELSE IF s[i] = c THEN i
    ELSE FindFrom(s, c, i + 1)

\* str::find(c): index of the first piece equal to c, 0 for None
Find(s, c) == FindFrom(s, c, 1)

\* the scan of str::rfind: the last index <= i holding c, 0 when there is none
RECURSIVE RFindFrom(_, _, _)
RFindFrom(s, c, i) ==
    IF i = 0 THEN 0
    ELSE IF s[i] = c THEN i
    ELSE RFindFrom(s, c, i - 1)

\* str::rfind(c): index of the last piece equal to c, 0 for None
RFind(s, c) == RFindFrom(s, c, Len(s))

Contains(s, c) == \E i \in 1..Len(s) : s[i] = c

\* &s[from..to) in the 1-based indices of the model: pieces from..to
Slice(s, from, to) == SubSeq(s, from, to)

\* char::is_whitespace on the pieces of the model
IsWhitespace(c) == c \in {" ", "\r", "\n", "\t"}

RECURSIVE TrimStart(_)
TrimStart(s) ==
    IF s # <<>> /\ IsWhitespace(Head(s)) THEN TrimStart(Tail(s)) ELSE s

RECURSIVE TrimEnd(_)
TrimEnd(s) ==
    IF s # <<>> /\ IsWhitespace(s[Len(s)])
    THEN TrimEnd(SubSeq(s, 1, Len(s) - 1))
    ELSE s

\* str::trim
Trim(s) == TrimEnd(TrimStart(s))

StartsWith(s, c) == s # <<>> /\ s[1] = c
EndsWith(s, c) == s # <<>> /\ s[Len(s)] = c

\* str::split(c): the segments between the occurrences of c, empty ones kept
RECURSIVE Split(_, _)
Split(s, c) ==
    LET p == Find(s, c)
    IN IF p = 0 THEN <<s>>
       ELSE <<SubSeq(s, 1, p - 1)>> \o Split(SubSeq(s, p + 1, Len(s)), c)

\* Iterator::filter(|s| !s.is_empty())
RECURSIVE FilterNonEmpty(_)
FilterNonEmpty(l) ==
    IF l = <<>> THEN <<>>
    ELSE IF Head(l) = <<>> THEN FilterNonEmpty(Tail(l))
    ELSE <<Head(l)>> \o FilterNonEmpty(Tail(l))

\* [String]::join(c)
RECURSIVE Join(_, _)
Join(l, c) ==
    IF l = <<>> THEN <<>>
    ELSE IF Len(l) = 1 THEN l[1]
    ELSE l[1] \o <<c>> \o Join(Tail(l), c)

\* str::lines(): split after every "\n"; each line loses its "\n" and then
\* one "\r" before it; a last line without "\n" is kept as it is
RECURSIVE StrLines(_)
StrLines(s) ==
    IF s = <<>> THEN <<>>
    ELSE LET p == Find(s, "\n")
         IN IF p = 0 THEN <<s>>
            ELSE LET l == SubSeq(s, 1, p - 1)
                     stripped == IF EndsWith(l, "\r")
                                 THEN SubSeq(l, 1, Len(l) - 1) ELSE l
                 IN <<stripped>> \o StrLines(SubSeq(s, p + 1, Len(s)))

-----------------------------------------------------------------------------
(* Locale                                                                   *)

\* Locale::new
LocaleNew(lang) ==
    [lang |-> lang, country |-> None, encoding |-> None, modifier |-> None]

\* from_string cutting the modifier at the first '@' instead of the last
from_string_FirstAt(s) ==
    LET at_pos == Find(s, "@")
        has_modifier == at_pos # 0
        modifier == IF has_modifier
                    THEN Some(Slice(s, at_pos + 1, Len(s))) ELSE None
        base0 == IF has_modifier THEN Slice(s, 1, at_pos - 1) ELSE s
        dot_pos == RFind(base0, ".")
        has_encoding == dot_pos # 0
        encoding == IF has_encoding
                    THEN Some(Slice(base0, dot_pos + 1, Len(base0))) ELSE None
        base == IF has_encoding THEN Slice(base0, 1, dot_pos - 1) ELSE base0
        underscore_pos == Find(base, "_")
    IN IF underscore_pos # 0
       THEN [lang |-> Slice(base, 1, underscore_pos - 1),
             country |-> Some(Slice(base, underscore_pos + 1, Len(base))),
             encoding |-> encoding, modifier |-> modifier]
       ELSE [lang |-> base, country |-> None,
             encoding |-> encoding, modifier |-> modifier]

\* from_string taking an empty text behind the last '@' as no modifier
from_string_NoEmptyModifier(s) ==
    LET at_pos == RFind(s, "@")
        has_modifier == at_pos # 0
        modifier == IF has_modifier /\ at_pos < Len(s)
                    THEN Some(Slice(s, at_pos + 1, Len(s))) ELSE None
        base0 == IF has_modifier THEN Slice(s, 1, at_pos - 1) ELSE s
        dot_pos == RFind(base0, ".")
        has_encoding == dot_pos # 0
        encoding == IF has_encoding
                    THEN Some(Slice(base0, dot_pos + 1, Len(base0))) ELSE None
        base == IF has_encoding THEN Slice(base0, 1, dot_pos - 1) ELSE base0
        underscore_pos == Find(base, "_")
    IN IF underscore_pos # 0
       THEN [lang |-> Slice(base, 1, underscore_pos - 1),
             country |-> Some(Slice(base, underscore_pos + 1, Len(base))),
             encoding |-> encoding, modifier |-> modifier]
       ELSE [lang |-> base, country |-> None,
             encoding |-> encoding, modifier |-> modifier]

\* Locale::from_string
from_string(s) ==
    LET at_pos == RFind(s, "@")
        has_modifier == at_pos # 0
        modifier == IF has_modifier
                    THEN Some(Slice(s, at_pos + 1, Len(s))) ELSE None
        base0 == IF has_modifier THEN Slice(s, 1, at_pos - 1) ELSE s
        dot_pos == RFind(base0, ".")
        has_encoding ==
            IF ~has_modifier /\ Contains(base0, ".") THEN dot_pos # 0
            ELSE IF has_modifier THEN dot_pos # 0
            ELSE FALSE
        encoding == IF has_encoding
                    THEN Some(Slice(base0, dot_pos + 1, Len(base0))) ELSE None
        base == IF has_encoding THEN Slice(base0, 1, dot_pos - 1) ELSE base0
        underscore_pos == Find(base, "_")
    IN IF underscore_pos # 0
       THEN [lang |-> Slice(base, 1, underscore_pos - 1),
             country |-> Some(Slice(base, underscore_pos + 1, Len(base))),
             encoding |-> encoding, modifier |-> modifier]
       ELSE [lang |-> base, country |-> None,
             encoding |-> encoding, modifier |-> modifier]

\* to_string_repr leaving out the components that are empty
to_string_repr_SkipEmpty(l) ==
    l.lang
    \o (IF IsSome(l.country) /\ Unwrap(l.country) # <<>>
        THEN <<"_">> \o Unwrap(l.country) ELSE <<>>)
    \o (IF IsSome(l.encoding) /\ Unwrap(l.encoding) # <<>>
        THEN <<".">> \o Unwrap(l.encoding) ELSE <<>>)
    \o (IF IsSome(l.modifier) /\ Unwrap(l.modifier) # <<>>
        THEN <<"@">> \o Unwrap(l.modifier) ELSE <<>>)

\* Locale::to_string_repr
to_string_repr(l) ==
    l.lang
    \o (IF IsSome(l.country) THEN <<"_">> \o Unwrap(l.country) ELSE <<>>)
    \o (IF IsSome(l.encoding) THEN <<".">> \o Unwrap(l.encoding) ELSE <<>>)
    \o (IF IsSome(l.modifier) THEN <<"@">> \o Unwrap(l.modifier) ELSE <<>>)


-----------------------------------------------------------------------------
(* Localized values                                                         *)

\* LocalizedString::new, IconString::new, LocalizedStringList::new
LocalizedNew(default) == [default |-> default, localized |-> EmptyMap]

\* add_localized keeping the variant a locale already has
add_localized_KeepFirst(s, l, value) ==
    IF ContainsKey(s.localized, l) THEN s
    ELSE [s EXCEPT !.localized = MapInsert(s.localized, l, value)]

\* LocalizedString::add_localized (and the same method of the other two)
add_localized(s, l, value) ==
    [s EXCEPT !.localized = MapInsert(s.localized, l, value)]

\* LocalizedString::get trying the variant without modifier before the
\* variant without country
LocalizedString_get_ModifierFirst(s, l) ==
    LET no_country == [l EXCEPT !.country = None]
        no_modifier == [l EXCEPT !.modifier = None]
        lang_only == LocaleNew(l.lang)
    IN IF ContainsKey(s.localized, l) THEN s.localized[l]
       ELSE IF IsSome(l.modifier) /\ ContainsKey(s.localized, no_modifier)
            THEN s.localized[no_modifier]
       ELSE IF IsSome(l.country) /\ IsSome(l.modifier)
               /\ ContainsKey(s.localized, no_country)
            THEN s.localized[no_country]
       ELSE IF (IsSome(l.country) \/ IsSome(l.modifier))
               /\ ContainsKey(s.localized, lang_only)
            THEN s.localized[lang_only]
       ELSE s.default

\* LocalizedString::get returning some stored variant before the default
LocalizedString_get_AnyVariant(s, l) ==
    LET no_country == [l EXCEPT !.country = None]
        no_modifier == [l EXCEPT !.modifier = None]
        lang_only == LocaleNew(l.lang)
    IN IF ContainsKey(s.localized, l) THEN s.localized[l]
       ELSE IF IsSome(l.country) /\ IsSome(l.modifier)
               /\ ContainsKey(s.localized, no_country)
            THEN s.localized[no_country]
       ELSE IF IsSome(l.modifier) /\ ContainsKey(s.localized, no_modifier)
            THEN s.localized[no_modifier]
       ELSE IF (IsSome(l.country) \/ IsSome(l.modifier))
               /\ ContainsKey(s.localized, lang_only)
            THEN s.localized[lang_only]
       ELSE IF DOMAIN s.localized # {}
            THEN s.localized[CHOOSE k \in DOMAIN s.localized : TRUE]
       ELSE s.default

\* LocalizedString::get
LocalizedString_get(s, l) ==
    LET no_country == [l EXCEPT !.country = None]
        no_modifier == [l EXCEPT !.modifier = None]
        lang_only == LocaleNew(l.lang)
    IN IF ContainsKey(s.localized, l) THEN s.localized[l]
       ELSE IF IsSome(l.country) /\ IsSome(l.modifier)
               /\ ContainsKey(s.localized, no_country)
            THEN s.localized[no_country]
       ELSE IF IsSome(l.modifier) /\ ContainsKey(s.localized, no_modifier)
            THEN s.localized[no_modifier]
       ELSE IF (IsSome(l.country) \/ IsSome(l.modifier))
               /\ ContainsKey(s.localized, lang_only)
            THEN s.localized[lang_only]
       ELSE s.default

\* IconString::get
IconString_get(s, l) ==
    LET no_country == [l EXCEPT !.country = None]
        no_modifier == [l EXCEPT !.modifier = None]
        lang_only == LocaleNew(l.lang)
    IN IF ContainsKey(s.localized, l) THEN s.localized[l]
       ELSE IF IsSome(l.country) /\ IsSome(l.modifier)
               /\ ContainsKey(s.localized, no_country)
            THEN s.localized[no_country]
       ELSE IF IsSome(l.modifier) /\ ContainsKey(s.localized, no_modifier)
            THEN s.localized[no_modifier]
       ELSE IF (IsSome(l.country) \/ IsSome(l.modifier))
               /\ ContainsKey(s.localized, lang_only)
            THEN s.localized[lang_only]
       ELSE s.default

\* LocalizedStringList::get
LocalizedStringList_get(s, l) ==
    LET no_country == [l EXCEPT !.country = None]
        no_modifier == [l EXCEPT !.modifier = None]
        lang_only == LocaleNew(l.lang)
    IN IF ContainsKey(s.localized, l) THEN s.localized[l]
       ELSE IF IsSome(l.country) /\ IsSome(l.modifier)
               /\ ContainsKey(s.localized, no_country)
            THEN s.localized[no_country]
       ELSE IF IsSome(l.modifier) /\ ContainsKey(s.localized, no_modifier)
            THEN s.localized[no_modifier]
       ELSE IF (IsSome(l.country) \/ IsSome(l.modifier))
               /\ ContainsKey(s.localized, lang_only)
            THEN s.localized[lang_only]
       ELSE s.default

-----------------------------------------------------------------------------
(* DesktopEntryType                                                         *)

\* DesktopEntryType::from_str
DesktopEntryType_from_str(s) ==
    IF s = <<"Application">> THEN Some("Application")
    ELSE IF s = <<"Link">> THEN Some("Link")
    ELSE IF s = <<"Directory">> THEN Some("Directory")
    ELSE None

\* DesktopEntryType::as_str
DesktopEntryType_as_str(t) ==
    IF t = "Application" THEN <<"Application">>
    ELSE IF t = "Link" THEN <<"Link">>
    ELSE <<"Directory">>

-----------------------------------------------------------------------------
(* Parser: the line loop                                                    *)

\* the pieces that are not made of ASCII letters, digits and '-' only
OtherPieces ==
    {"[", "]", "=", "#", ";", "_", ".", "@", " ", "\r", "\n", "\t",
     "Desktop Entry", "Desktop Action new"}

\* key.chars().all(|c| c.is_ascii_alphanumeric() || c == '-')
ValidKeyName(key) == \A i \in 1..Len(key) : key[i] \notin OtherPieces

\* the locals of Parser::parse before the first line
LoopInit ==
    [line_num |-> 0, current_group |-> None, groups |-> EmptyMap,
     comments |-> <<>>, kind |-> "Run", err |-> <<>>]

\* return Err(e) out of the loop
Fail(s, e) == [s EXCEPT !.kind = "Err", !.err = e]

\* a slice whose start lies behind its end aborts the process
Panic(s) == [s EXCEPT !.kind = "Panic"]

\* the key-value branch keeping only the last line of a key
KeyValueLine_Replace(s, line) ==
    LET eq_pos == Find(line, "=")
        key_part == Slice(line, 1, eq_pos - 1)
        value == Slice(line, eq_pos + 1, Len(line))
        bracket_start == Find(key_part, "[")
        bracket_end == Find(key_part, "]")
        key == IF bracket_start # 0
               THEN Trim(Slice(key_part, 1, bracket_start - 1))
               ELSE Trim(key_part)
        loc == IF bracket_start # 0
               THEN Some(from_string(
                        Slice(key_part, bracket_start + 1, bracket_end - 1)))
               ELSE None
        e == [key |-> key, locale |-> loc, value |-> value]
        group_name == Unwrap(s.current_group)
        group == s.groups[group_name]
        pushed == IF ContainsKey(group, key)
                  THEN [group EXCEPT ![key] = <<e>>]
                  ELSE MapInsert(group, key, <<e>>)
    IN IF eq_pos = 0
       THEN Fail(s, <<"InvalidLine", s.line_num, line>>)
       ELSE IF bracket_start # 0 /\ bracket_end = 0
       THEN Fail(s, <<"InvalidLine", s.line_num, line>>)
       ELSE IF bracket_start # 0 /\ bracket_end < bracket_start
       THEN Panic(s)
       ELSE IF ~ValidKeyName(key)
       THEN Fail(s, <<"InvalidKeyName", s.line_num, key>>)
       ELSE IF IsSome(s.current_group)
       THEN [s EXCEPT !.groups[group_name] = pushed]
       ELSE Fail(s, <<"InvalidLine", s.line_num, line>>)

\* the key-value branch of the loop body
KeyValueLine(s, line) ==
    LET eq_pos == Find(line, "=")
        key_part == Slice(line, 1, eq_pos - 1)
        value == Slice(line, eq_pos + 1, Len(line))
        bracket_start == Find(key_part, "[")
        bracket_end == Find(key_part, "]")
        key == IF bracket_start # 0
               THEN Trim(Slice(key_part, 1, bracket_start - 1))
               ELSE Trim(key_part)
        loc == IF bracket_start # 0
               THEN Some(from_string(
                        Slice(key_part, bracket_start + 1, bracket_end - 1)))
               ELSE None
        e == [key |-> key, locale |-> loc, value |-> value]
        group_name == Unwrap(s.current_group)
        group == s.groups[group_name]
        pushed == IF ContainsKey(group, key)
                  THEN [group EXCEPT ![key] = Append(@, e)]
                  ELSE MapInsert(group, key, <<e>>)
    IN IF eq_pos = 0
       THEN Fail(s, <<"InvalidLine", s.line_num, line>>)
       ELSE IF bracket_start # 0 /\ bracket_end = 0
       THEN Fail(s, <<"InvalidLine", s.line_num, line>>)
       ELSE IF bracket_start # 0 /\ bracket_end < bracket_start
       THEN Panic(s)
       ELSE IF ~ValidKeyName(key)
       THEN Fail(s, <<"InvalidKeyName", s.line_num, key>>)
       ELSE IF IsSome(s.current_group)
       THEN [s EXCEPT !.groups[group_name] = pushed]
       ELSE Fail(s, <<"InvalidLine", s.line_num, line>>)

\* the group-header branch reporting the trimmed text of a bad header
GroupHeaderLine_Trimmed(s, line, trimmed) ==
    LET group_name == Slice(trimmed, 2, Len(trimmed) - 1)
    IN IF ~EndsWith(trimmed, "]")
       THEN Fail(s, <<"InvalidGroupHeader", s.line_num, trimmed>>)
       ELSE IF ContainsKey(s.groups, group_name)
       THEN Fail(s, <<"DuplicateGroup", group_name>>)
       ELSE [s EXCEPT !.groups = MapInsert(s.groups, group_name, EmptyMap),
                      !.current_group = Some(group_name)]

\* the group-header branch without the check for a group seen before
GroupHeaderLine_NoDuplicateCheck(s, line, trimmed) ==
    LET group_name == Slice(trimmed, 2, Len(trimmed) - 1)
    IN IF ~EndsWith(trimmed, "]")
       THEN Fail(s, <<"InvalidGroupHeader", s.line_num, line>>)
       ELSE [s EXCEPT !.groups = MapInsert(s.groups, group_name, EmptyMap),
                      !.current_group = Some(group_name)]

\* the group-header branch of the loop body
GroupHeaderLine(s, line, trimmed) ==
    LET group_name == Slice(trimmed, 2, Len(trimmed) - 1)
    IN IF ~EndsWith(trimmed, "]")
       THEN Fail(s, <<"InvalidGroupHeader", s.line_num, line>>)
       ELSE IF ContainsKey(s.groups, group_name)
       THEN Fail(s, <<"DuplicateGroup", group_name>>)
       ELSE [s EXCEPT !.groups = MapInsert(s.groups, group_name, EmptyMap),
                      !.current_group = Some(group_name)]

\* the loop body recording blank and comment lines inside groups as well
LoopBody_RecordAll(s0, line) ==
    LET s == [s0 EXCEPT !.line_num = s0.line_num + 1]
        trimmed == Trim(line)
    IN IF trimmed = <<>>
       THEN [s EXCEPT !.comments =
                Append(@, [line_number |-> s.line_num,
                           content |-> <<>>, is_blank |-> TRUE])]
       ELSE IF StartsWith(trimmed, "#")
       THEN [s EXCEPT !.comments =
                Append(@, [line_number |-> s.line_num,
                           content |-> Tail(trimmed), is_blank |-> FALSE])]
       ELSE IF StartsWith(trimmed, "[")
       THEN GroupHeaderLine(s, line, trimmed)
       ELSE KeyValueLine(s, line)

\* one pass of `for line in &self.lines`
LoopBody(s0, line) ==
    LET s == [s0 EXCEPT !.line_num = s0.line_num + 1]
        trimmed == Trim(line)
    IN IF trimmed = <<>>
       THEN IF IsNone(s.current_group)
            THEN [s EXCEPT !.comments =
                     Append(@, [line_number |-> s.line_num,
                                content |-> <<>>, is_blank |-> TRUE])]
            ELSE s
       ELSE IF StartsWith(trimmed, "#")
       THEN IF IsNone(s.current_group)
            THEN [s EXCEPT !.comments =
                     Append(@, [line_number |-> s.line_num,
                                content |-> Tail(trimmed), is_blank |-> FALSE])]
            ELSE s
       ELSE IF StartsWith(trimmed, "[")
       THEN GroupHeaderLine(s, line, trimmed)
       ELSE KeyValueLine(s, line)

\* the whole loop: stops at the first return or abort
RECURSIVE Loop(_, _)
Loop(s, ls) ==
    IF ls = <<>> \/ s.kind # "Run" THEN s
    ELSE Loop(LoopBody(s, Head(ls)), Tail(ls))

-----------------------------------------------------------------------------
(* Parser: building the typed document                                      *)

\* Parser::parse_optional_string
parse_optional_string(data, key, target) ==
    IF ContainsKey(data, key) /\ data[key] # <<>>
    THEN Some(data[key][1].value)
    ELSE target

\* parse_optional_bool trimming the value before it matches it
parse_optional_bool_Trimmed(data, key, target) ==
    IF ContainsKey(data, key) /\ data[key] # <<>>
    THEN IF Trim(data[key][1].value) = <<"true">> THEN Some(TRUE)
         ELSE IF Trim(data[key][1].value) = <<"false">> THEN Some(FALSE)
         ELSE None
    ELSE target

\* Parser::parse_optional_bool
parse_optional_bool(data, key, target) ==
    IF ContainsKey(data, key) /\ data[key] # <<>>
    THEN IF data[key][1].value = <<"true">> THEN Some(TRUE)
         ELSE IF data[key][1].value = <<"false">> THEN Some(FALSE)
         ELSE None
    ELSE target

\* entry.value.split(';').filter(|s| !s.is_empty()).collect()
SplitList(value) == FilterNonEmpty(Split(value, ";"))

\* parse_optional_string_list keeping the empty segments
parse_optional_string_list_KeepEmpty(data, key, target) ==
    IF ContainsKey(data, key) /\ data[key] # <<>>
    THEN Some(Split(data[key][1].value, ";"))
    ELSE target

\* Parser::parse_optional_string_list
parse_optional_string_list(data, key, target) ==
    IF ContainsKey(data, key) /\ data[key] # <<>>
    THEN IF SplitList(data[key][1].value) # <<>>
         THEN Some(SplitList(data[key][1].value))
         ELSE target
    ELSE target

\* the loop `for entry in entries` shared by the localized fields: a tagged
\* entry is inserted under its locale, an untagged one replaces the default
RECURSIVE CollectLocalized(_, _)
CollectLocalized(acc, entries) ==
    IF entries = <<>> THEN acc
    ELSE LET e == Head(entries)
         IN CollectLocalized(
                IF IsSome(e.locale)
                THEN add_localized(acc, Unwrap(e.locale), e.value)
                ELSE [acc EXCEPT !.default = e.value],
                Tail(entries))

\* Parser::parse_optional_localized_string
parse_optional_localized_string(data, key, target) ==
    IF ContainsKey(data, key)
    THEN Some(CollectLocalized(LocalizedNew(<<>>), data[key]))
    ELSE target

\* Parser::parse_optional_icon_string
parse_optional_icon_string(data, key, target) ==
    IF ContainsKey(data, key)
    THEN Some(CollectLocalized(LocalizedNew(<<>>), data[key]))
    ELSE target

\* the entries of a key with every value split on ';'
SplitValues(entries) ==
    [i \in 1..Len(entries) |->
        [entries[i] EXCEPT !.value = SplitList(entries[i].value)]]

\* Parser::parse_optional_localized_string_list
parse_optional_localized_string_list(data, key, target) ==
    IF ContainsKey(data, key)
    THEN Some(CollectLocalized(LocalizedNew(<<>>), SplitValues(data[key])))
    ELSE target

\* the array known_keys without URL
known_keys_WithoutURL ==
    {<<"Type">>, <<"Name">>, <<"Version">>, <<"GenericName">>,
     <<"NoDisplay">>, <<"Comment">>, <<"Icon">>, <<"Hidden">>,
     <<"OnlyShowIn">>, <<"NotShowIn">>, <<"DBusActivatable">>,
     <<"TryExec">>, <<"Exec">>, <<"Path">>, <<"Terminal">>, <<"Actions">>,
     <<"MimeType">>, <<"Categories">>, <<"Implements">>, <<"Keywords">>,
     <<"StartupNotify">>, <<"StartupWMClass">>,
     <<"PrefersNonDefaultGPU">>, <<"SingleMainWindow">>}

\* the array known_keys of Parser::parse
known_keys ==
    {<<"Type">>, <<"Name">>, <<"Version">>, <<"GenericName">>,
     <<"NoDisplay">>, <<"Comment">>, <<"Icon">>, <<"Hidden">>,
     <<"OnlyShowIn">>, <<"NotShowIn">>, <<"DBusActivatable">>,
     <<"TryExec">>, <<"Exec">>, <<"Path">>, <<"Terminal">>, <<"Actions">>,
     <<"MimeType">>, <<"Categories">>, <<"Implements">>, <<"Keywords">>,
     <<"StartupNotify">>, <<"StartupWMClass">>, <<"URL">>,
     <<"PrefersNonDefaultGPU">>, <<"SingleMainWindow">>}

\* the name of the main group
DesktopEntryGroup == <<"Desktop Entry">>

\* DesktopEntry::new followed by the assignments of Parser::parse
BuildEntry(entry_type, name, comments, data, rest) ==
    [entry_type |-> entry_type,
     name |-> name,
     version |-> parse_optional_string(data, <<"Version">>, None),
     generic_name |->
        parse_optional_localized_string(data, <<"GenericName">>, None),
     no_display |-> parse_optional_bool(data, <<"NoDisplay">>, None),
     comment |-> parse_optional_localized_string(data, <<"Comment">>, None),
     icon |-> parse_optional_icon_string(data, <<"Icon">>, None),
     hidden |-> parse_optional_bool(data, <<"Hidden">>, None),
     only_show_in |-> parse_optional_string_list(data, <<"OnlyShowIn">>, None),
     not_show_in |-> parse_optional_string_list(data, <<"NotShowIn">>, None),
     dbus_activatable |->
        parse_optional_bool(data, <<"DBusActivatable">>, None),
     try_exec |-> parse_optional_string(data, <<"TryExec">>, None),
     exec |-> parse_optional_string(data, <<"Exec">>, None),
     path |-> parse_optional_string(data, <<"Path">>, None),
     terminal |-> parse_optional_bool(data, <<"Terminal">>, None),
     actions |-> parse_optional_string_list(data, <<"Actions">>, None),
     mime_type |-> parse_optional_string_list(data, <<"MimeType">>, None),
     categories |-> parse_optional_string_list(data, <<"Categories">>, None),
     implements |-> parse_optional_string_list(data, <<"Implements">>, None),
     keywords |->
        parse_optional_localized_string_list(data, <<"Keywords">>, None),
     startup_notify |-> parse_optional_bool(data, <<"StartupNotify">>, None),
     startup_wm_class |->
        parse_optional_string(data, <<"StartupWMClass">>, None),
     url |-> parse_optional_string(data, <<"URL">>, None),
     prefers_non_default_gpu |->
        parse_optional_bool(data, <<"PrefersNonDefaultGPU">>, None),
     single_main_window |->
        parse_optional_bool(data, <<"SingleMainWindow">>, None),
     unknown_keys |-> [k \in (DOMAIN data) \ known_keys |-> data[k]],
     additional_groups |->
        [g \in DOMAIN rest |-> [name |-> g, entries |-> rest[g]]],
     comments |-> comments]

\* the value of entry when parse returned no document
NoEntry == <<>>

\* the checks taking a missing Desktop Entry group for an empty one
RequiredKeys_GroupOptional(gs) ==
    LET data == IF ContainsKey(gs, DesktopEntryGroup)
                THEN gs[DesktopEntryGroup] ELSE EmptyMap
        type_entries == data[<<"Type">>][1]
    IN IF ~(ContainsKey(data, <<"Type">>) /\ data[<<"Type">>] # <<>>)
       THEN <<"MissingRequiredKey", <<"Type">>>>
       ELSE IF IsNone(DesktopEntryType_from_str(type_entries.value))
       THEN <<"InvalidValue", <<"Type">>, type_entries.value>>
       ELSE IF ~ContainsKey(data, <<"Name">>)
       THEN <<"MissingRequiredKey", <<"Name">>>>
       ELSE <<>>

\* the checks looking for Name before Type
RequiredKeys_NameFirst(gs) ==
    LET data == gs[DesktopEntryGroup]
        type_entries == data[<<"Type">>][1]
    IN IF ~ContainsKey(gs, DesktopEntryGroup)
       THEN <<"MissingDesktopEntryGroup">>
       ELSE IF ~ContainsKey(data, <<"Name">>)
       THEN <<"MissingRequiredKey", <<"Name">>>>
       ELSE IF ~(ContainsKey(data, <<"Type">>) /\ data[<<"Type">>] # <<>>)
       THEN <<"MissingRequiredKey", <<"Type">>>>
       ELSE IF IsNone(DesktopEntryType_from_str(type_entries.value))
       THEN <<"InvalidValue", <<"Type">>, type_entries.value>>
       ELSE <<>>

\* the checks taking a Name key whose first value is empty for missing
RequiredKeys_NameNotEmpty(gs) ==
    LET data == gs[DesktopEntryGroup]
        type_entries == data[<<"Type">>][1]
    IN IF ~ContainsKey(gs, DesktopEntryGroup)
       THEN <<"MissingDesktopEntryGroup">>
       ELSE IF ~(ContainsKey(data, <<"Type">>) /\ data[<<"Type">>] # <<>>)
       THEN <<"MissingRequiredKey", <<"Type">>>>
       ELSE IF IsNone(DesktopEntryType_from_str(type_entries.value))
       THEN <<"InvalidValue", <<"Type">>, type_entries.value>>
       ELSE IF ~ContainsKey(data, <<"Name">>)
               \/ data[<<"Name">>][1].value = <<>>
       THEN <<"MissingRequiredKey", <<"Name">>>>
       ELSE <<>>

\* the checks of Parser::parse between the line loop and DesktopEntry::new:
\* the error it returns, or <<>> when it goes on to build the document
RequiredKeys(gs) ==
    LET data == gs[DesktopEntryGroup]
        type_entries == data[<<"Type">>][1]
    IN IF ~ContainsKey(gs, DesktopEntryGroup)
       THEN <<"MissingDesktopEntryGroup">>
       ELSE IF ~(ContainsKey(data, <<"Type">>) /\ data[<<"Type">>] # <<>>)
       THEN <<"MissingRequiredKey", <<"Type">>>>
       ELSE IF IsNone(DesktopEntryType_from_str(type_entries.value))
       THEN <<"InvalidValue", <<"Type">>, type_entries.value>>
       ELSE IF ~ContainsKey(data, <<"Name">>)
       THEN <<"MissingRequiredKey", <<"Name">>>>
       ELSE <<>>

\* the end of Parser::parse refusing a Link document without URL
Finish_Validating(s) ==
    LET data == s.groups[DesktopEntryGroup]
        rest == MapRemove(s.groups, DesktopEntryGroup)
        entry_type == DesktopEntryType_from_str(data[<<"Type">>][1].value)
        name == CollectLocalized(LocalizedNew(<<>>), data[<<"Name">>])
    IN IF s.kind = "Panic"
       THEN [kind |-> "Panic", err |-> <<>>, entry |-> NoEntry]
       ELSE IF s.kind = "Err"
       THEN [kind |-> "Err", err |-> s.err, entry |-> NoEntry]
       ELSE IF RequiredKeys(s.groups) # <<>>
       THEN [kind |-> "Err", err |-> RequiredKeys(s.groups), entry |-> NoEntry]
       ELSE IF entry_type = Some("Link") /\ ~ContainsKey(data, <<"URL">>)
       THEN [kind |-> "Err",
             err |-> <<"ValidationError", "URL is required for Link type entries">>,
             entry |-> NoEntry]
       ELSE [kind |-> "Ok", err |-> <<>>,
             entry |-> BuildEntry(Unwrap(entry_type), name, s.comments,
                                  data, rest)]

\* what Parser::parse does after the line loop, given the loop's final locals
Finish(s) ==
    LET data == s.groups[DesktopEntryGroup]
        rest == MapRemove(s.groups, DesktopEntryGroup)
        entry_type == DesktopEntryType_from_str(data[<<"Type">>][1].value)
        name == CollectLocalized(LocalizedNew(<<>>), data[<<"Name">>])
    IN IF s.kind = "Panic"
       THEN [kind |-> "Panic", err |-> <<>>, entry |-> NoEntry]
       ELSE IF s.kind = "Err"
       THEN [kind |-> "Err", err |-> s.err, entry |-> NoEntry]
       ELSE IF RequiredKeys(s.groups) # <<>>
       THEN [kind |-> "Err", err |-> RequiredKeys(s.groups), entry |-> NoEntry]
       ELSE [kind |-> "Ok", err |-> <<>>,
             entry |-> BuildEntry(Unwrap(entry_type), name, s.comments,
                                  data, rest)]

\* Parser::new
ParserNew(content) == StrLines(content)

\* DesktopEntry::parse: Parser::new(content).parse()
Parse(content) == Finish(Loop(LoopInit, ParserNew(content)))

-----------------------------------------------------------------------------
(* Semantic validation                                                      *)

\* validate taking any set DBusActivatable, true or false, for enough
validate_AnyDbus(e) ==
    IF e.entry_type = "Link" /\ IsNone(e.url)
    THEN <<"ValidationError", "URL is required for Link type entries">>
    ELSE IF e.entry_type = "Application" /\ IsNone(e.exec)
            /\ IsNone(e.dbus_activatable)
    THEN <<"ValidationError",
           "Either Exec key or DBusActivatable=true is required for Application type">>
    ELSE <<"Ok">>

\* DesktopEntry::validate
validate(e) ==
    IF e.entry_type = "Link" /\ IsNone(e.url)
    THEN <<"ValidationError", "URL is required for Link type entries">>
    ELSE IF e.entry_type = "Application" /\ IsNone(e.exec)
            /\ ~(IF IsSome(e.dbus_activatable)
                 THEN Unwrap(e.dbus_activatable) ELSE FALSE)
    THEN <<"ValidationError",
           "Either Exec key or DBusActivatable=true is required for Application type">>
    ELSE <<"Ok">>

-----------------------------------------------------------------------------
(* Serializer.  A HashMap is iterated in an order the program does not       *)
(* choose, so write_to is the SET of the texts it can write.                 *)

\* writeln!(writer, ...)
Writeln(s) == s \o <<"\n">>

\* the concatenation of a sequence of strings
RECURSIVE Flatten(_)
Flatten(ss) == IF ss = <<>> THEN <<>> ELSE Head(ss) \o Flatten(Tail(ss))

\* every text one of A followed by one of B
Cat(A, B) == {a \o b : a \in A, b \in B}

\* every text made of one text of each set of a sequence of sets, in order
RECURSIVE CatAll(_)
CatAll(sets) == IF sets = <<>> THEN {<<>>} ELSE Cat(Head(sets), CatAll(Tail(sets)))

\* the orders in which a HashMap with key set S can be iterated
IterOrders(S) ==
    {p \in [1..Cardinality(S) -> S] :
        \A i, j \in 1..Cardinality(S) : i # j => p[i] # p[j]}

\* writeln!(writer, "{}={}", key, value)
PlainLine(key, value) == Writeln(key \o <<"=">> \o value)

\* writeln!(writer, "{}[{}]={}", key, locale.to_string_repr(), value)
TaggedLine(key, l, value) ==
    Writeln(key \o <<"[">> \o to_string_repr(l) \o <<"]", "=">> \o value)

\* `for (locale, value) in &x.localized { writeln!(...) }`
LocalizedLines(key, localized) ==
    {Flatten([i \in 1..Len(p) |-> TaggedLine(key, p[i], localized[p[i]])]) :
        p \in IterOrders(DOMAIN localized)}

\* the default line and the tagged lines of a localized string field
WriteLocalized(key, field) ==
    IF IsSome(field)
    THEN Cat({PlainLine(key, Unwrap(field).default)},
             LocalizedLines(key, Unwrap(field).localized))
    ELSE {<<>>}

\* the same for Keywords, whose values are joined with ';'
WriteLocalizedList(key, field) ==
    IF IsSome(field)
    THEN Cat({PlainLine(key, Join(Unwrap(field).default, ";"))},
             LocalizedLines(key,
                [l \in DOMAIN Unwrap(field).localized |->
                    Join(Unwrap(field).localized[l], ";")]))
    ELSE {<<>>}

\* `if let Some(v) = &self.f { writeln!(writer, "Key={}", v) }`
WriteString(key, field) ==
    IF IsSome(field) THEN {PlainLine(key, Unwrap(field))} ELSE {<<>>}

\* the same for a bool, printed as true or false
WriteBool(key, field) ==
    IF IsSome(field)
    THEN {PlainLine(key, IF Unwrap(field) THEN <<"true">> ELSE <<"false">>)}
    ELSE {<<>>}

\* the same for a list, joined with ';'
WriteList(key, field) ==
    IF IsSome(field) THEN {PlainLine(key, Join(Unwrap(field), ";"))} ELSE {<<>>}

\* `for entry in entries { ... }` of the unknown keys and additional groups
EntryLines(key, entries) ==
    Flatten([i \in 1..Len(entries) |->
        IF IsSome(entries[i].locale)
        THEN TaggedLine(key, Unwrap(entries[i].locale), entries[i].value)
        ELSE PlainLine(key, entries[i].value)])

\* `for (key, entries) in &map { for entry in entries { ... } }`
WriteEntries(m) ==
    {Flatten([i \in 1..Len(p) |-> EntryLines(p[i], m[p[i]])]) :
        p \in IterOrders(DOMAIN m)}

\* one additional group: a blank line, its header, its entries
WriteGroup(group) ==
    Cat({Writeln(<<>>) \o Writeln(<<"[">> \o group.name \o <<"]">>)},
        WriteEntries(group.entries))

\* `for (_, group) in &self.additional_groups { ... }`
WriteGroups(ag) ==
    UNION {CatAll([i \in 1..Len(p) |-> WriteGroup(ag[p[i]])]) :
        p \in IterOrders(DOMAIN ag)}

\* the leading comments
WriteComments(comments) ==
    Flatten([i \in 1..Len(comments) |->
        IF comments[i].is_blank THEN Writeln(<<>>)
        ELSE Writeln(<<"#">> \o comments[i].content)])

\* write_to emitting Exec before TryExec
write_to_ExecFirst(e) ==
    CatAll(<<
        {WriteComments(e.comments)},
        {Writeln(<<"[", "Desktop Entry", "]">>)},
        {PlainLine(<<"Type">>, DesktopEntryType_as_str(e.entry_type))},
        WriteString(<<"Version">>, e.version),
        WriteLocalized(<<"Name">>, Some(e.name)),
        WriteLocalized(<<"GenericName">>, e.generic_name),
        WriteBool(<<"NoDisplay">>, e.no_display),
        WriteLocalized(<<"Comment">>, e.comment),
        WriteLocalized(<<"Icon">>, e.icon),
        WriteBool(<<"Hidden">>, e.hidden),
        WriteList(<<"OnlyShowIn">>, e.only_show_in),
        WriteList(<<"NotShowIn">>, e.not_show_in),
        WriteBool(<<"DBusActivatable">>, e.dbus_activatable),
        WriteString(<<"Exec">>, e.exec),
        WriteString(<<"TryExec">>, e.try_exec),
        WriteString(<<"Path">>, e.path),
        WriteBool(<<"Terminal">>, e.terminal),
        WriteList(<<"Actions">>, e.actions),
        WriteList(<<"MimeType">>, e.mime_type),
        WriteList(<<"Categories">>, e.categories),
        WriteList(<<"Implements">>, e.implements),
        WriteLocalizedList(<<"Keywords">>, e.keywords),
        WriteBool(<<"StartupNotify">>, e.startup_notify),
        WriteString(<<"StartupWMClass">>, e.startup_wm_class),
        WriteString(<<"URL">>, e.url),
        WriteBool(<<"PrefersNonDefaultGPU">>, e.prefers_non_default_gpu),
        WriteBool(<<"SingleMainWindow">>, e.single_main_window),
        WriteEntries(e.unknown_keys),
        WriteGroups(e.additional_groups)>>)

\* DesktopEntry::write_to (DesktopEntry::serialize returns what it wrote)
write_to(e) ==
    CatAll(<<
        {WriteComments(e.comments)},
        {Writeln(<<"[", "Desktop Entry", "]">>)},
        {PlainLine(<<"Type">>, DesktopEntryType_as_str(e.entry_type))},
        WriteString(<<"Version">>, e.version),
        WriteLocalized(<<"Name">>, Some(e.name)),
        WriteLocalized(<<"GenericName">>, e.generic_name),
        WriteBool(<<"NoDisplay">>, e.no_display),
        WriteLocalized(<<"Comment">>, e.comment),
        WriteLocalized(<<"Icon">>, e.icon),
        WriteBool(<<"Hidden">>, e.hidden),
        WriteList(<<"OnlyShowIn">>, e.only_show_in),
        WriteList(<<"NotShowIn">>, e.not_show_in),
        WriteBool(<<"DBusActivatable">>, e.dbus_activatable),
        WriteString(<<"TryExec">>, e.try_exec),
        WriteString(<<"Exec">>, e.exec),
        WriteString(<<"Path">>, e.path),
        WriteBool(<<"Terminal">>, e.terminal),
        WriteList(<<"Actions">>, e.actions),
        WriteList(<<"MimeType">>, e.mime_type),
        WriteList(<<"Categories">>, e.categories),
        WriteList(<<"Implements">>, e.implements),
        WriteLocalizedList(<<"Keywords">>, e.keywords),
        WriteBool(<<"StartupNotify">>, e.startup_notify),
        WriteString(<<"StartupWMClass">>, e.startup_wm_class),
        WriteString(<<"URL">>, e.url),
        WriteBool(<<"PrefersNonDefaultGPU">>, e.prefers_non_default_gpu),
        WriteBool(<<"SingleMainWindow">>, e.single_main_window),
        WriteEntries(e.unknown_keys),
        WriteGroups(e.additional_groups)>>)

-----------------------------------------------------------------------------
(* The inputs                                                               *)

\* how many lines are added to the first lines of a text
MaxLines == 2
\* how many pieces a locale token has at most
MaxTokenLen == 7
\* how many variants a localized value stores at most
MaxVariants == 2

\* a text ends its lines with LF or with CR LF
Eols == {<<"\n">>, <<"\r", "\n">>}

\* the text made of the lines ls, each ended by e
TextOf(ls, e) == Flatten([i \in 1..Len(ls) |-> ls[i] \o e])

\* a minimal valid file; a text starts with its first k lines, k = 0..3
Minimal ==
    << <<"[", "Desktop Entry", "]">>,
       <<"Type", "=", "Application">>,
       <<"Name", "=", "x">> >>

\* the lines added after them
InputLines ==
    { <<"[", "Desktop Entry", "]">>,
      <<"[", "Foo", "]">>,
      <<" ", "[", "Foo">>,
      <<"garbage">>,
      <<"Type", "=", "Link">>,
      <<"Type", "=", "Bogus">>,
      <<"Type", "[", "fr", "]", "=", "Directory">>,
      <<"Name", "=", "y">>,
      <<"Name", "[", "fr", "]", "=", "z">>,
      <<"Exec", "=", "a">>,
      <<"Exec", "=", "a", "\r">>,
      <<" ", "Exec", " ", "=", "b">>,
      <<"My", ".", "Key", "=", "v">>,
      <<"=", "v">>,
      <<"]", "K", "[", "=", "v">>,
      <<"K", "[", "fr", "=", "v">>,
      <<"X-Foo", "=", "v">>,
      <<"#", "c">>,
      <<>> }

\* the pieces of a locale token
TokenPieces == {"a", "_", ".", "@"}

\* the strings of at most n pieces
RECURSIVE StringsUpTo(_, _)
StringsUpTo(P, n) ==
    IF n = 0 THEN {<<>>}
    ELSE LET shorter == StringsUpTo(P, n - 1)
         IN shorter \cup {Append(t, c) : t \in shorter, c \in P}

Tokens == StringsUpTo(TokenPieces, MaxTokenLen)

\* the locales stored in and asked of a localized value
Locales ==
    [lang : {<<"en">>, <<"fr">>},
     country : {None, Some(<<"US">>)},
     encoding : {None, Some(<<"UTF-8">>)},
     modifier : {None, Some(<<"euro">>)}]

LocalizedTypes == {"LocalizedString", "IconString", "LocalizedStringList"}

\* a value of the localized type t spelled w
ValueOf(t, w) == IF t = "LocalizedStringList" THEN << <<w>> >> ELSE <<w>>

-----------------------------------------------------------------------------
(* The state machine                                                        *)

NoResult == [kind |-> "None", err |-> <<>>]

InitParseVars ==
    /\ appended = 0
    /\ pc = "input"
    /\ lines = <<>>
    /\ line_num = 0
    /\ groups = EmptyMap
    /\ result = NoResult
    /\ entry = NoEntry
    /\ valid = <<>>
    /\ output = <<>>
    /\ result2 = NoResult
    /\ entry2 = NoEntry

InitLocaleVars ==
    /\ token = <<>>
    /\ locale = LocaleNew(<<>>)
    /\ repr = <<>>
    /\ locale2 = LocaleNew(<<>>)

InitResolveVars ==
    /\ query = LocaleNew(<<>>)
    /\ resolved = <<>>

\* a caller writes the next line of the text
AppendLine ==
    /\ pc = "input"
    /\ appended < MaxLines
    /\ \E l \in InputLines : text' = text \o l \o eol
    /\ appended' = appended + 1
    /\ UNCHANGED <<eol, pc, lines, line_num, groups, result, entry, valid,
                   output, result2, entry2>>
    /\ UNCHANGED <<localeVars, resolveVars>>

\* DesktopEntry::parse(text)
CallParse ==
    /\ pc = "input"
    /\ LET ls == ParserNew(text)
           s == Loop(LoopInit, ls)
           r == Finish(s)
       IN /\ lines' = ls
          /\ line_num' = s.line_num
          /\ groups' = s.groups
          /\ result' = [kind |-> r.kind, err |-> r.err]
          /\ entry' = r.entry
    /\ pc' = "parsed"
    /\ UNCHANGED <<text, appended, eol, valid, output, result2, entry2>>
    /\ UNCHANGED <<localeVars, resolveVars>>

\* entry.validate()
CallValidate ==
    /\ pc = "parsed"
    /\ result.kind = "Ok"
    /\ valid' = validate(entry)
    /\ pc' = "validated"
    /\ UNCHANGED <<text, appended, eol, lines, line_num, groups, result,
                   entry, output, result2, entry2>>
    /\ UNCHANGED <<localeVars, resolveVars>>

\* entry.serialize()
CallSerialize ==
    /\ pc = "parsed"
    /\ result.kind = "Ok"
    /\ \E o \in write_to(entry) : output' = o
    /\ pc' = "serialized"
    /\ UNCHANGED <<text, appended, eol, lines, line_num, groups, result,
                   entry, valid, result2, entry2>>
    /\ UNCHANGED <<localeVars, resolveVars>>

\* DesktopEntry::parse(output)
CallReparse ==
    /\ pc = "serialized"
    /\ LET r == Parse(output)
       IN /\ result2' = [kind |-> r.kind, err |-> r.err]
          /\ entry2' = r.entry
    /\ pc' = "reparsed"
    /\ UNCHANGED <<text, appended, eol, lines, line_num, groups, result,
                   entry, valid, output>>
    /\ UNCHANGED <<localeVars, resolveVars>>

Init ==
    /\ eol \in Eols
    /\ \E k \in 0..Len(Minimal) : text = TextOf(SubSeq(Minimal, 1, k), eol)
    /\ InitParseVars
    /\ InitLocaleVars
    /\ ty = "LocalizedString"
    /\ self = LocalizedNew(<<>>)
    /\ InitResolveVars

Next ==
    \/ AppendLine
    \/ CallParse
    \/ CallValidate
    \/ CallSerialize
    \/ CallReparse

Spec == Init /\ [][Next]_vars

\* ---- Locale::from_string and Locale::to_string_repr on their own

\* Locale::from_string(token)
FromString ==
    /\ pc = "input"
    /\ locale' = from_string(token)
    /\ pc' = "decomposed"
    /\ UNCHANGED <<token, repr, locale2>>
    /\ UNCHANGED <<text, appended, eol, lines, line_num, groups, result,
                   entry, valid, output, result2, entry2>>
    /\ UNCHANGED resolveVars

\* locale.to_string_repr()
ToStringRepr ==
    /\ pc = "decomposed"
    /\ repr' = to_string_repr(locale)
    /\ pc' = "recomposed"
    /\ UNCHANGED <<token, locale, locale2>>
    /\ UNCHANGED <<text, appended, eol, lines, line_num, groups, result,
                   entry, valid, output, result2, entry2>>
    /\ UNCHANGED resolveVars

InitLocale ==
    /\ eol = <<"\n">>
    /\ text = <<>>
    /\ InitParseVars
    /\ token \in Tokens
    /\ locale = LocaleNew(<<>>)
    /\ repr = <<>>
    /\ locale2 = LocaleNew(<<>>)
    /\ ty = "LocalizedString"
    /\ self = LocalizedNew(<<>>)
    /\ InitResolveVars

NextLocale ==
    \/ FromString
    \/ ToStringRepr

SpecLocale == InitLocale /\ [][NextLocale]_vars

\* ---- locale resolution on its own

\* self.add_localized(l, v)
AddLocalized ==
    /\ pc = "input"
    /\ \E l \in Locales, w \in {"v1", "v2"} :
        /\ \/ ContainsKey(self.localized, l)
           \/ Cardinality(DOMAIN self.localized) < MaxVariants
        /\ self' = add_localized(self, l, ValueOf(ty, w))
    /\ UNCHANGED <<ty, query, resolved>>
    /\ UNCHANGED <<parseVars, localeVars>>

\* self.get(&q)
Get ==
    /\ pc = "input"
    /\ \E q \in Locales :
        /\ query' = q
        /\ resolved' =
            IF ty = "LocalizedString" THEN LocalizedString_get(self, q)
            ELSE IF ty = "IconString" THEN IconString_get(self, q)
            ELSE LocalizedStringList_get(self, q)
    /\ pc' = "resolved"
    /\ UNCHANGED <<ty, self>>
    /\ UNCHANGED <<text, appended, eol, lines, line_num, groups, result,
                   entry, valid, output, result2, entry2>>
    /\ UNCHANGED localeVars

InitResolve ==
    /\ eol = <<"\n">>
    /\ text = <<>>
    /\ InitParseVars
    /\ InitLocaleVars
    /\ ty \in LocalizedTypes
    /\ self = LocalizedNew(ValueOf(ty, "D"))
    /\ InitResolveVars

NextResolve ==
    \/ AddLocalized
    \/ Get

SpecResolve == InitResolve /\ [][NextResolve]_vars

\* ---- validate on documents of each type

\* how many lines are added to the main group of a minimal file
MaxFieldLines == 2

\* the minimal file of type t
MinimalOf(t) ==
    << <<"[", "Desktop Entry", "]">>, <<"Type", "=", t>>, <<"Name", "=", "x">> >>

\* the three spellings DesktopEntryType::from_str knows
TypeNames == {"Application", "Link", "Directory"}

\* lines of the keys validate looks at, and of one it does not
ValidateLines ==
    { <<"Exec", "=", "a">>,
      <<"URL", "=", "u">>,
      <<"DBusActivatable", "=", "true">>,
      <<"DBusActivatable", "=", "false">>,
      <<"DBusActivatable", "=", "True">>,
      <<"Terminal", "=", "true">> }

\* a caller writes the next line of the main group
AppendValidateLine ==
    /\ pc = "input"
    /\ appended < MaxFieldLines
    /\ \E l \in ValidateLines : text' = text \o l \o eol
    /\ appended' = appended + 1
    /\ UNCHANGED <<eol, pc, lines, line_num, groups, result, entry, valid,
                   output, result2, entry2>>
    /\ UNCHANGED <<localeVars, resolveVars>>

InitValidate ==
    /\ eol \in Eols
    /\ \E t \in TypeNames : text = TextOf(MinimalOf(t), eol)
    /\ InitParseVars
    /\ InitLocaleVars
    /\ ty = "LocalizedString"
    /\ self = LocalizedNew(<<>>)
    /\ InitResolveVars

NextValidate ==
    \/ AppendValidateLine
    \/ CallParse
    \/ CallValidate

SpecValidate == InitValidate /\ [][NextValidate]_vars

\* ---- the scalar, boolean and list fields of the main group

\* lines of scalar, boolean and list keys
FieldLines ==
    { <<"Exec", "=", "a">>,
      <<"Exec", "=", "b">>,
      <<"Exec", "[", "fr", "]", "=", "c">>,
      <<"URL", "=", "u">>,
      <<"Version", "=", "1.5">>,
      <<"TryExec", "=", "t">>,
      <<"Path", "=", "p">>,
      <<"StartupWMClass", "=", "w">>,
      <<"Terminal", "=", "true">>,
      <<"Terminal", "=", "false">>,
      <<"Terminal", "=", "True">>,
      <<"Terminal", "=", "1">>,
      <<"Terminal", "=", "true", " ">>,
      <<"DBusActivatable", "=", "true">>,
      <<"DBusActivatable", "=", "false">>,
      <<"NoDisplay", "=", "true">>,
      <<"Hidden", "=", "false">>,
      <<"StartupNotify", "=", "true">>,
      <<"PrefersNonDefaultGPU", "=", "false">>,
      <<"SingleMainWindow", "=", "true">>,
      <<"Categories", "=", "A", ";", "B", ";">>,
      <<"Categories", "=", ";", "A", ";", ";", "B">>,
      <<"Categories", "=", ";", ";">>,
      <<"Categories", "=">>,
      <<"OnlyShowIn", "=", "A", ";", "B">>,
      <<"NotShowIn", "=", "A">>,
      <<"Actions", "=", "A", ";">>,
      <<"MimeType", "=", ";", "A">>,
      <<"Implements", "=", "A", ";", ";">> }

\* a caller writes the next line of the main group
AppendFieldLine ==
    /\ pc = "input"
    /\ appended < MaxFieldLines
    /\ \E l \in FieldLines : text' = text \o l \o eol
    /\ appended' = appended + 1
    /\ UNCHANGED <<eol, pc, lines, line_num, groups, result, entry, valid,
                   output, result2, entry2>>
    /\ UNCHANGED <<localeVars, resolveVars>>

InitFields ==
    /\ eol = <<"\n">>
    /\ text = TextOf(Minimal, eol)
    /\ InitParseVars
    /\ InitLocaleVars
    /\ ty = "LocalizedString"
    /\ self = LocalizedNew(<<>>)
    /\ InitResolveVars

NextFields ==
    \/ AppendFieldLine
    \/ CallParse

SpecFields == InitFields /\ [][NextFields]_vars

\* ---- unknown keys and additional groups

\* how many lines are added to a file with unknown keys and further groups
MaxGroupsLines == 3

\* the first lines of a text: the minimal file, or the minimal file and the
\* header of a second group
GroupsHeads == {Minimal, Minimal \o << <<"[", "Foo", "]">> >>}

\* unknown keys with and without locale tag, keys of the schema, and the
\* header of a further group
GroupsLines ==
    { <<"X-Foo", "=", "v">>,
      <<"X-Foo", "[", "fr", "]", "=", "w">>,
      <<"X-Bar", "=", "v">>,
      <<"Exec", "=", "a">>,
      <<"URL", "=", "u">>,
      <<"Name", "[", "fr", "]", "=", "z">>,
      <<"[", "Bar", "]">> }

\* a caller writes the next line of the file
AppendGroupsLine ==
    /\ pc = "input"
    /\ appended < MaxGroupsLines
    /\ \E l \in GroupsLines : text' = text \o l \o eol
    /\ appended' = appended + 1
    /\ UNCHANGED <<eol, pc, lines, line_num, groups, result, entry, valid,
                   output, result2, entry2>>
    /\ UNCHANGED <<localeVars, resolveVars>>

InitGroups ==
    /\ eol = <<"\n">>
    /\ \E h \in GroupsHeads : text = TextOf(h, eol)
    /\ InitParseVars
    /\ InitLocaleVars
    /\ ty = "LocalizedString"
    /\ self = LocalizedNew(<<>>)
    /\ InitResolveVars

NextGroups ==
    \/ AppendGroupsLine
    \/ CallParse

SpecGroups == InitGroups /\ [][NextGroups]_vars

\* ---- every key of the schema: parse, then serialize

\* how many lines are added to a file before it is parsed and written back
MaxWriteLines == 2

\* the first lines of a text: the minimal file, with or without a comment
\* and a blank line before it
WriteHeads == {Minimal, << <<"#", "c">>, <<>> >> \o Minimal}

\* one line for every optional key of the schema, a localized name, an
\* unknown key, and the headers of two further groups
WriteLines ==
    { <<"Version", "=", "1.5">>,
      <<"Name", "[", "fr", "]", "=", "z">>,
      <<"GenericName", "=", "g">>,
      <<"NoDisplay", "=", "true">>,
      <<"Comment", "=", "m">>,
      <<"Icon", "=", "i">>,
      <<"Hidden", "=", "false">>,
      <<"OnlyShowIn", "=", "A", ";", "B">>,
      <<"NotShowIn", "=", "A">>,
      <<"DBusActivatable", "=", "true">>,
      <<"TryExec", "=", "t">>,
      <<"Exec", "=", "a">>,
      <<"Path", "=", "p">>,
      <<"Terminal", "=", "false">>,
      <<"Actions", "=", "A">>,
      <<"MimeType", "=", "A">>,
      <<"Categories", "=", "A", ";", "B">>,
      <<"Implements", "=", "A">>,
      <<"Keywords", "=", "K", ";", "L">>,
      <<"StartupNotify", "=", "true">>,
      <<"StartupWMClass", "=", "w">>,
      <<"URL", "=", "u">>,
      <<"PrefersNonDefaultGPU", "=", "true">>,
      <<"SingleMainWindow", "=", "false">>,
      <<"X-Foo", "=", "v">>,
      <<"[", "Foo", "]">>,
      <<"[", "Bar", "]">> }

\* a caller writes the next line of the file
AppendWriteLine ==
    /\ pc = "input"
    /\ appended < MaxWriteLines
    /\ \E l \in WriteLines : text' = text \o l \o eol
    /\ appended' = appended + 1
    /\ UNCHANGED <<eol, pc, lines, line_num, groups, result, entry, valid,
                   output, result2, entry2>>
    /\ UNCHANGED <<localeVars, resolveVars>>

InitWrite ==
    /\ eol = <<"\n">>
    /\ \E h \in WriteHeads : text = TextOf(h, eol)
    /\ InitParseVars
    /\ InitLocaleVars
    /\ ty = "LocalizedString"
    /\ self = LocalizedNew(<<>>)
    /\ InitResolveVars

NextWrite ==
    \/ AppendWriteLine
    \/ CallParse
    \/ CallSerialize

SpecWrite == InitWrite /\ [][NextWrite]_vars

\* ---- what stands before and behind the main group

\* how many lines are written before the minimal file, and how many behind
MaxLeadLines == 2
MaxTailLines == 1

\* the lines written before the minimal file: comments and blank lines with
\* and without blanks around them, and the header of another group
LeadLines ==
    { <<"#", "c">>,
      <<" ", "#", " ", "c", " ">>,
      <<"#">>,
      <<>>,
      <<" ">>,
      <<"[", "Foo", "]">> }

\* the lines written behind it: a comment, a blank line, an unknown key and
\* the header of a further group
TailLines ==
    { <<"#", "d">>,
      <<>>,
      <<"X-Foo", "=", "v">>,
      <<"[", "Bar", "]">> }

\* a caller writes a line before the main group
AppendLeadLine ==
    /\ pc = "lead"
    /\ appended < MaxLeadLines
    /\ \E l \in LeadLines : text' = text \o l \o eol
    /\ appended' = appended + 1
    /\ UNCHANGED <<eol, pc, lines, line_num, groups, result, entry, valid,
                   output, result2, entry2>>
    /\ UNCHANGED <<localeVars, resolveVars>>

\* a caller writes the minimal file
AppendMinimal ==
    /\ pc = "lead"
    /\ text' = text \o TextOf(Minimal, eol)
    /\ appended' = 0
    /\ pc' = "input"
    /\ UNCHANGED <<eol, lines, line_num, groups, result, entry, valid,
                   output, result2, entry2>>
    /\ UNCHANGED <<localeVars, resolveVars>>

\* a caller writes a line behind it
AppendTailLine ==
    /\ pc = "input"
    /\ appended < MaxTailLines
    /\ \E l \in TailLines : text' = text \o l \o eol
    /\ appended' = appended + 1
    /\ UNCHANGED <<eol, pc, lines, line_num, groups, result, entry, valid,
                   output, result2, entry2>>
    /\ UNCHANGED <<localeVars, resolveVars>>

InitLayout ==
    /\ eol = <<"\n">>
    /\ text = <<>>
    /\ appended = 0
    /\ pc = "lead"
    /\ lines = <<>>
    /\ line_num = 0
    /\ groups = EmptyMap
    /\ result = NoResult
    /\ entry = NoEntry
    /\ valid = <<>>
    /\ output = <<>>
    /\ result2 = NoResult
    /\ entry2 = NoEntry
    /\ InitLocaleVars
    /\ ty = "LocalizedString"
    /\ self = LocalizedNew(<<>>)
    /\ InitResolveVars

NextLayout ==
    \/ AppendLeadLine
    \/ AppendMinimal
    \/ AppendTailLine
    \/ CallParse
    \/ CallSerialize
    \/ CallReparse

SpecLayout == InitLayout /\ [][NextLayout]_vars

\* ---- Locale::to_string_repr and Locale::from_string on a built Locale

\* how many pieces a component of a built Locale has at most
MaxPartLen == 2

\* the components without '_', '.' and '@'
Parts == StringsUpTo({"a", "b"}, MaxPartLen)

\* the Locales a caller builds from such components
BuiltLocales ==
    [lang : Parts,
     country : {None} \cup {Some(p) : p \in Parts},
     encoding : {None} \cup {Some(p) : p \in Parts},
     modifier : {None} \cup {Some(p) : p \in Parts}]

\* locale.to_string_repr() on the built Locale
ToStringReprBuilt ==
    /\ pc = "built"
    /\ repr' = to_string_repr(locale)
    /\ pc' = "written"
    /\ UNCHANGED <<token, locale, locale2>>
    /\ UNCHANGED <<text, appended, eol, lines, line_num, groups, result,
                   entry, valid, output, result2, entry2>>
    /\ UNCHANGED resolveVars

\* Locale::from_string(repr)
FromStringRepr ==
    /\ pc = "written"
    /\ locale2' = from_string(repr)
    /\ pc' = "reread"
    /\ UNCHANGED <<token, locale, repr>>
    /\ UNCHANGED <<text, appended, eol, lines, line_num, groups, result,
                   entry, valid, output, result2, entry2>>
    /\ UNCHANGED resolveVars

InitCompose ==
    /\ eol = <<"\n">>
    /\ text = <<>>
    /\ appended = 0
    /\ pc = "built"
    /\ lines = <<>>
    /\ line_num = 0
    /\ groups = EmptyMap
    /\ result = NoResult
    /\ entry = NoEntry
    /\ valid = <<>>
    /\ output = <<>>
    /\ result2 = NoResult
    /\ entry2 = NoEntry
    /\ token = <<>>
    /\ locale \in BuiltLocales
    /\ repr = <<>>
    /\ locale2 = LocaleNew(<<>>)
    /\ ty = "LocalizedString"
    /\ self = LocalizedNew(<<>>)
    /\ InitResolveVars

NextCompose ==
    \/ ToStringReprBuilt
    \/ FromStringRepr

SpecCompose == InitCompose /\ [][NextCompose]_vars

\* ---- the localized fields of the main group

\* how many lines are appended to the minimal file
MaxLocalizedLines == 3

\* lines of the five localized keys: untagged ones, ones that share a locale
\* tag, tags of one language that differ, list values
LocalizedFieldLines ==
    { <<"Name", "=", "y">>,
      <<"Name", "[", "fr", "]", "=", "z">>,
      <<"Name", "[", "fr", "]", "=", "w">>,
      <<"Name", "[", "fr", "_", "US", "]", "=", "z">>,
      <<"GenericName", "=", "g">>,
      <<"GenericName", "=", "h">>,
      <<"Comment", "[", "fr", "]", "=", "c">>,
      <<"Icon", "[", "fr", "]", "=", "i">>,
      <<"Keywords", "[", "fr", "]", "=", "K", ";", "L">>,
      <<"Keywords", "[", "fr", "]", "=", "L", ";", ";">> }

\* one more line of the file
AppendLocalizedLine ==
    /\ pc = "input"
    /\ appended < MaxLocalizedLines
    /\ \E l \in LocalizedFieldLines : text' = text \o l \o eol
    /\ appended' = appended + 1
    /\ UNCHANGED <<eol, pc, lines, line_num, groups, result, entry, valid,
                   output, result2, entry2>>
    /\ UNCHANGED <<localeVars, resolveVars>>

InitLocalized ==
    /\ eol = <<"\n">>
    /\ text = TextOf(Minimal, eol)
    /\ InitParseVars
    /\ InitLocaleVars
    /\ ty = "LocalizedString"
    /\ self = LocalizedNew(<<>>)
    /\ InitResolveVars

NextLocalized ==
    \/ AppendLocalizedLine
    \/ CallParse

SpecLocalized == InitLocalized /\ [][NextLocalized]_vars

\* ---- another value on one line of a text that parses

\* how many lines are appended to the minimal file
MaxReplaceLines == 2

\* lines of fields of every kind, of a key outside the schema, with a locale
\* tag and with an empty key, a second Type line, a further header, a comment
ReplaceLines ==
    { <<"Exec", "=", "a">>,
      <<"Terminal", "=", "true">>,
      <<"Categories", "=", "A", ";", "B">>,
      <<"Name", "[", "fr", "]", "=", "z">>,
      <<"X-Foo", "=", "v">>,
      <<"=", "v">>,
      <<"Type", "=", "Link">>,
      <<"[", "Foo", "]">>,
      <<"#", "c">> }

\* the strings without line break that take the place of a value
ReplaceValues ==
    { <<>>, <<" ">>, <<"#">>, <<"=", "y">>, <<"[", "x", "]">>, <<";">>,
      <<"\r">> }

\* one more line of the file
AppendReplaceLine ==
    /\ pc = "input"
    /\ appended < MaxReplaceLines
    /\ \E l \in ReplaceLines : text' = text \o l \o eol
    /\ appended' = appended + 1
    /\ UNCHANGED <<eol, pc, lines, line_num, groups, result, entry, valid,
                   output, result2, entry2>>
    /\ UNCHANGED <<localeVars, resolveVars>>

\* the key of a key-value line, as the parser cuts it
KeyOfLine(line) ==
    LET key_part == Slice(line, 1, Find(line, "=") - 1)
        bracket_start == Find(key_part, "[")
    IN IF bracket_start # 0
       THEN Trim(Slice(key_part, 1, bracket_start - 1))
       ELSE Trim(key_part)

\* the lines the parser takes for key-value lines of a key other than Type
ReplaceableLines(ls) ==
    {n \in 1..Len(ls) :
        /\ Trim(ls[n]) # <<>>
        /\ ~StartsWith(Trim(ls[n]), "#")
        /\ ~StartsWith(Trim(ls[n]), "[")
        /\ Find(ls[n], "=") # 0
        /\ KeyOfLine(ls[n]) # <<"Type">>}

\* the text that parsed, with another value behind the first '=' of one line
ReplaceValue ==
    /\ pc = "parsed"
    /\ result.kind = "Ok"
    /\ \E n \in ReplaceableLines(lines), v \in ReplaceValues :
        /\ v # Slice(lines[n], Find(lines[n], "=") + 1, Len(lines[n]))
        /\ output' = TextOf(
                [lines EXCEPT ![n] =
                    Slice(lines[n], 1, Find(lines[n], "=")) \o v], eol)
    /\ pc' = "replaced"
    /\ UNCHANGED <<text, appended, eol, lines, line_num, groups, result,
                   entry, valid, result2, entry2>>
    /\ UNCHANGED <<localeVars, resolveVars>>

\* DesktopEntry::parse on the text with the other value
CallParseReplaced ==
    /\ pc = "replaced"
    /\ LET r == Parse(output)
       IN /\ result2' = [kind |-> r.kind, err |-> r.err]
          /\ entry2' = r.entry
    /\ pc' = "parsed again"
    /\ UNCHANGED <<text, appended, eol, lines, line_num, groups, result,
                   entry, valid, output>>
    /\ UNCHANGED <<localeVars, resolveVars>>

InitReplace ==
    /\ eol = <<"\n">>
    /\ text = TextOf(Minimal, eol)
    /\ InitParseVars
    /\ InitLocaleVars
    /\ ty = "LocalizedString"
    /\ self = LocalizedNew(<<>>)
    /\ InitResolveVars

NextReplace ==
    \/ AppendReplaceLine
    \/ CallParse
    \/ ReplaceValue
    \/ CallParseReplaced

SpecReplace == InitReplace /\ [][NextReplace]_vars

-----------------------------------------------------------------------------
(* The claims                                                               *)

\* parse has returned (or aborted) on text
Parsed == pc \in {"parsed", "validated", "serialized", "reparsed"}

\* the error values of DesktopEntryError that the claims name
InvalidLine(n, l) == <<"InvalidLine", n, l>>
InvalidGroupHeader(n, l) == <<"InvalidGroupHeader", n, l>>
InvalidKeyName(n, k) == <<"InvalidKeyName", n, k>>
DuplicateGroup(g) == <<"DuplicateGroup", g>>
MissingDesktopEntryGroup == <<"MissingDesktopEntryGroup">>
MissingRequiredKey(k) == <<"MissingRequiredKey", k>>
InvalidValue(k, raw) == <<"InvalidValue", k, raw>>

\* parse returned Err(e)
Failed(e) == result.kind = "Err" /\ result.err = e

\* parse returned one of the structural (grammar) errors
StructuralError ==
    /\ result.kind = "Err"
    /\ result.err[1] \in {"InvalidLine", "InvalidGroupHeader",
                          "InvalidKeyName", "DuplicateGroup"}

\* the string s holds the piece c
Has(s, c) == \E i \in 1..Len(s) : s[i] = c
\* the place of the first and of the last c of a string that holds one
FirstIdx(s, c) == CHOOSE i \in 1..Len(s) : s[i] = c /\ \A j \in 1..(i - 1) : s[j] # c
LastIdx(s, c) == CHOOSE i \in 1..Len(s) : s[i] = c /\ \A j \in (i + 1)..Len(s) : s[j] # c
Before(s, i) == SubSeq(s, 1, i - 1)
After(s, i) == SubSeq(s, i + 1, Len(s))

\* how the grammar of the format classifies a line
Blank(l) == Trim(l) = <<>>
CommentLine(l) == ~Blank(l) /\ Trim(l)[1] = "#"
HeaderStart(l) == ~Blank(l) /\ Trim(l)[1] = "["
HeaderLine(l) == HeaderStart(l) /\ Trim(l)[Len(Trim(l))] = "]"
HeaderName(l) == SubSeq(Trim(l), 2, Len(Trim(l)) - 1)
EntryLine(l) == ~Blank(l) /\ ~CommentLine(l) /\ ~HeaderStart(l)
KeyPart(l) == Before(l, FirstIdx(l, "="))
\* a string over [A-Za-z0-9-] with at least one character
WellFormedKey(k) == k # <<>> /\ \A i \in 1..Len(k) : k[i] \notin OtherPieces

\* C1: for every text that parses to a document d, parse(serialize(d))
\* succeeds and has the entry_type, name.default and exec of d.
C1_RoundTrip ==
    pc = "reparsed" =>
        /\ result2.kind = "Ok"
        /\ entry2.entry_type = entry.entry_type
        /\ entry2.name.default = entry.name.default
        /\ entry2.exec = entry.exec

\* C2: get returns the value of the first step that hits: the variant of the
\* query itself; if the query has country and modifier, the variant of the
\* query without country; if it has a modifier, the variant of the query
\* without modifier; if it has country or modifier, the variant of the
\* language alone; else the default.
C2_Cascade ==
    pc = "resolved" =>
        LET m == self.localized
            k2 == [query EXCEPT !.country = None]
            k3 == [query EXCEPT !.modifier = None]
            k4 == [lang |-> query.lang, country |-> None,
                   encoding |-> None, modifier |-> None]
            h1 == query \in DOMAIN m
            h2 == query.country # None /\ query.modifier # None
                    /\ k2 \in DOMAIN m
            h3 == query.modifier # None /\ k3 \in DOMAIN m
            h4 == (query.country # None \/ query.modifier # None)
                    /\ k4 \in DOMAIN m
        IN /\ h1 => resolved = m[query]
           /\ ~h1 /\ h2 => resolved = m[k2]
           /\ ~h1 /\ ~h2 /\ h3 => resolved = m[k3]
           /\ ~h1 /\ ~h2 /\ ~h3 /\ h4 => resolved = m[k4]
           /\ ~h1 /\ ~h2 /\ ~h3 /\ ~h4 => resolved = self.default

\* C2 witness: en@euro and en_US are stored with different values, en_US@euro
\* is not, and the query en_US@euro got the en@euro variant.
C2_Witness ==
    LET en_euro == [lang |-> <<"en">>, country |-> None, encoding |-> None,
                    modifier |-> Some(<<"euro">>)]
        en_US == [lang |-> <<"en">>, country |-> Some(<<"US">>),
                  encoding |-> None, modifier |-> None]
        en_US_euro == [lang |-> <<"en">>, country |-> Some(<<"US">>),
                       encoding |-> None, modifier |-> Some(<<"euro">>)]
    IN /\ pc = "resolved"
       /\ query = en_US_euro
       /\ DOMAIN self.localized = {en_euro, en_US}
       /\ self.localized[en_euro] # self.localized[en_US]
       /\ resolved = self.localized[en_euro]

\* C3: parse returns a document or an error value on every text; it never
\* aborts.
C3_ParseTotal == Parsed => result.kind \in {"Ok", "Err"}

\* C4: from_string takes the modifier after the last '@', the encoding after
\* the last '.' of what is left, the country after the first '_' of what is
\* then left, the language from the rest; a part without separator is None.
C4_Decomposition ==
    pc \in {"decomposed", "recomposed"} =>
        LET r1 == IF Has(token, "@")
                  THEN Before(token, LastIdx(token, "@")) ELSE token
            r2 == IF Has(r1, ".") THEN Before(r1, LastIdx(r1, ".")) ELSE r1
        IN /\ locale.modifier =
                IF Has(token, "@")
                THEN <<After(token, LastIdx(token, "@"))>> ELSE <<>>
           /\ locale.encoding =
                IF Has(r1, ".") THEN <<After(r1, LastIdx(r1, "."))>> ELSE <<>>
           /\ locale.country =
                IF Has(r2, "_") THEN <<After(r2, FirstIdx(r2, "_"))>> ELSE <<>>
           /\ locale.lang =
                IF Has(r2, "_") THEN Before(r2, FirstIdx(r2, "_")) ELSE r2

\* C4 witness: a token with two '@', a '.' behind the first '@' and two '_'
\* was decomposed.
C4_Witness ==
    /\ pc = "decomposed"
    /\ token = <<"a", "_", "_", "@", ".", "@", "a">>
    /\ locale = [lang |-> <<"a">>, country |-> Some(<<"_", "@">>),
                 encoding |-> Some(<<>>), modifier |-> Some(<<"a">>)]

\* C5 (the part about lines without locale suffix): a key-value line whose
\* key is not a non-empty string over [A-Za-z0-9-] makes parse fail with
\* InvalidKeyName(line number, key); and every key stored in unknown_keys and
\* in the additional groups of a parsed document matches [A-Za-z0-9-]+.
C5_KeyNames ==
    Parsed =>
        /\ \A n \in 1..line_num :
            (/\ EntryLine(lines[n])
             /\ Has(lines[n], "=")
             /\ ~Has(KeyPart(lines[n]), "[")
             /\ ~Has(KeyPart(lines[n]), "]")
             /\ ~WellFormedKey(Trim(KeyPart(lines[n]))))
            => Failed(InvalidKeyName(n, Trim(KeyPart(lines[n]))))
        /\ result.kind = "Ok" =>
            /\ \A k \in DOMAIN entry.unknown_keys : WellFormedKey(k)
            /\ \A g \in DOMAIN entry.additional_groups :
                \A k \in DOMAIN entry.additional_groups[g].entries :
                    WellFormedKey(k)

\* C6: a line whose trimmed text starts with '[' and does not end with ']'
\* makes parse fail with InvalidGroupHeader(n, line), n being the 1-based
\* number of the line, blank and comment lines counted.
C6_InvalidGroupHeader ==
    Parsed =>
        \A n \in 1..line_num :
            (HeaderStart(lines[n]) /\ ~HeaderLine(lines[n]))
            => Failed(InvalidGroupHeader(n, lines[n]))

\* C6 witness: the bad header is the second line, behind a comment, and is
\* reported untrimmed.
C6_Witness ==
    /\ Parsed
    /\ Len(lines) = 2
    /\ CommentLine(lines[1])
    /\ lines[2] = <<" ", "[", "Foo">>
    /\ Failed(InvalidGroupHeader(2, <<" ", "[", "Foo">>))

\* C7: a header whose name an earlier header of the text has makes parse
\* fail with DuplicateGroup(name); so a parsed document comes from a text
\* whose header names are all different, one of them Desktop Entry, and its
\* additional groups are keyed by their own names, none being Desktop Entry.
C7_DuplicateGroup ==
    Parsed =>
        /\ \A n \in 1..line_num :
            (/\ HeaderLine(lines[n])
             /\ \E m \in 1..(n - 1) :
                    HeaderLine(lines[m])
                    /\ HeaderName(lines[m]) = HeaderName(lines[n]))
            => Failed(DuplicateGroup(HeaderName(lines[n])))
        /\ result.kind = "Ok" =>
            /\ \A n, m \in 1..Len(lines) :
                (/\ HeaderLine(lines[n]) /\ HeaderLine(lines[m])
                 /\ HeaderName(lines[m]) = HeaderName(lines[n]))
                => n = m
            /\ Cardinality({n \in 1..Len(lines) :
                    HeaderLine(lines[n])
                    /\ HeaderName(lines[n]) = <<"Desktop Entry">>}) = 1
            /\ <<"Desktop Entry">> \notin DOMAIN entry.additional_groups
            /\ \A g \in DOMAIN entry.additional_groups :
                entry.additional_groups[g].name = g

\* C7 witness: a second [Desktop Entry] header was refused.
C7_Witness ==
    /\ Parsed
    /\ line_num > 1
    /\ HeaderName(lines[1]) = <<"Desktop Entry">>
    /\ Failed(DuplicateGroup(<<"Desktop Entry">>))

\* C8: an entry line without '=' makes parse fail with InvalidLine(line
\* number, line), inside a group or before any header; so does a key part
\* with a '[' that no ']' follows; and a key-value line before the first
\* header makes parse fail.
C8_InvalidLine ==
    Parsed =>
        \A n \in 1..line_num :
            EntryLine(lines[n]) =>
                /\ ~Has(lines[n], "=") => Failed(InvalidLine(n, lines[n]))
                /\ (/\ Has(lines[n], "=")
                    /\ Has(KeyPart(lines[n]), "[")
                    /\ ~Has(After(KeyPart(lines[n]),
                                  FirstIdx(KeyPart(lines[n]), "[")), "]"))
                   => Failed(InvalidLine(n, lines[n]))
                /\ (/\ Has(lines[n], "=")
                    /\ \A m \in 1..(n - 1) : ~HeaderLine(lines[m]))
                   => result.kind = "Err"

\* C9: a text without structural violation and without [Desktop Entry]
\* header makes parse fail with MissingDesktopEntryGroup, whatever other
\* groups and keys it holds.
C9_MissingGroup ==
    (/\ Parsed
     /\ result.kind # "Panic"
     /\ ~StructuralError
     /\ \A n \in 1..Len(lines) :
            ~(HeaderLine(lines[n]) /\ HeaderName(lines[n]) = <<"Desktop Entry">>))
    => Failed(MissingDesktopEntryGroup)

\* C9 witness: a text with the group Foo, holding a Type line, was refused
\* for its missing Desktop Entry group.
C9_Witness ==
    /\ Parsed
    /\ lines = << <<"[", "Foo", "]">>, <<"Type", "=", "Link">> >>
    /\ Failed(MissingDesktopEntryGroup)

\* the lines of the Desktop Entry group of the text that carry the key k
MainGroupLines(k) ==
    {n \in 1..Len(lines) :
        /\ EntryLine(lines[n])
        /\ Has(lines[n], "=")
        /\ Trim(IF Has(KeyPart(lines[n]), "[")
                THEN Before(KeyPart(lines[n]), FirstIdx(KeyPart(lines[n]), "["))
                ELSE KeyPart(lines[n])) = k
        /\ \E h \in 1..(n - 1) :
            /\ HeaderLine(lines[h])
            /\ HeaderName(lines[h]) = <<"Desktop Entry">>
            /\ \A j \in (h + 1)..(n - 1) : ~HeaderLine(lines[j])}

\* the value of line n
ValueOfLine(n) == After(lines[n], FirstIdx(lines[n], "="))
Min(S) == CHOOSE x \in S : \A y \in S : x <= y

\* C10: in a structurally valid text with a [Desktop Entry] group, no Type
\* key gives MissingRequiredKey("Type"), else a value of the first Type line
\* other than Application, Link and Directory gives InvalidValue("Type",
\* value), else no Name key gives MissingRequiredKey("Name").
C10_RequiredKeys ==
    (/\ Parsed
     /\ result.kind # "Panic"
     /\ ~StructuralError
     /\ \E n \in 1..Len(lines) :
            HeaderLine(lines[n]) /\ HeaderName(lines[n]) = <<"Desktop Entry">>)
    => LET types == MainGroupLines(<<"Type">>)
           raw == ValueOfLine(Min(types))
           names == MainGroupLines(<<"Name">>)
       IN /\ types = {} => Failed(MissingRequiredKey(<<"Type">>))
          /\ (types # {}
              /\ raw \notin {<<"Application">>, <<"Link">>, <<"Directory">>})
             => Failed(InvalidValue(<<"Type">>, raw))
          /\ (types # {}
              /\ raw \in {<<"Application">>, <<"Link">>, <<"Directory">>}
              /\ names = {})
             => Failed(MissingRequiredKey(<<"Name">>))
          /\ (types # {}
              /\ raw \in {<<"Application">>, <<"Link">>, <<"Directory">>}
              /\ names # {})
             => result.kind = "Ok"

\* C10 witness: a Desktop Entry group with neither Type nor Name, but with
\* another key, reported Type.
C10_Witness ==
    /\ Parsed
    /\ lines = << <<"[", "Desktop Entry", "]">>, <<"Exec", "=", "a">> >>
    /\ Failed(MissingRequiredKey(<<"Type">>))

\* line n carries no locale tag
Untagged(n) == ~Has(KeyPart(lines[n]), "[")

\* C11: a parsed document has the type spelled on a Type line of the
\* [Desktop Entry] group of the text, and its name.default is the value of a
\* Name line of that group without locale tag.
C11_TypeAndName ==
    (Parsed /\ result.kind = "Ok") =>
        /\ \E n \in MainGroupLines(<<"Type">>) :
            /\ ValueOfLine(n) \in {<<"Application">>, <<"Link">>, <<"Directory">>}
            /\ <<entry.entry_type>> = ValueOfLine(n)
        /\ \E n \in MainGroupLines(<<"Name">>) :
            /\ Untagged(n)
            /\ entry.name.default = ValueOfLine(n)

\* the key of a key-value line, without its locale tag
BareKey(l) ==
    Trim(IF Has(KeyPart(l), "[")
         THEN Before(KeyPart(l), FirstIdx(KeyPart(l), "["))
         ELSE KeyPart(l))

\* line n of the text is a structural violation: a bad header, a header
\* whose name an earlier header has, an entry line without '=', with a '['
\* that no ']' follows in its key part, with a key outside [A-Za-z0-9-]+, or
\* before the first header
Violates(n) ==
    LET l == lines[n]
    IN \/ HeaderStart(l) /\ ~HeaderLine(l)
       \/ /\ HeaderLine(l)
          /\ \E m \in 1..(n - 1) :
                HeaderLine(lines[m]) /\ HeaderName(lines[m]) = HeaderName(l)
       \/ EntryLine(l) /\ ~Has(l, "=")
       \/ /\ EntryLine(l)
          /\ Has(l, "=")
          /\ \/ /\ Has(KeyPart(l), "[")
                /\ ~Has(After(KeyPart(l), FirstIdx(KeyPart(l), "[")), "]")
             \/ ~WellFormedKey(BareKey(l))
             \/ \A m \in 1..(n - 1) : ~HeaderLine(lines[m])

\* parse returned the error of line n
ErrorOfLine(n) ==
    LET l == lines[n]
    IN IF HeaderStart(l) /\ ~HeaderLine(l)
       THEN Failed(InvalidGroupHeader(n, l))
       ELSE IF HeaderLine(l)
       THEN Failed(DuplicateGroup(HeaderName(l)))
       ELSE /\ result.kind = "Err"
            /\ result.err[1] \in {"InvalidLine", "InvalidKeyName"}
            /\ result.err[2] = n

\* C12: when the text has structural violations, parse returns the error of
\* the violating line with the lowest number; so no structural violation is
\* ever answered with MissingDesktopEntryGroup, MissingRequiredKey or
\* InvalidValue.
C12_FailFast ==
    Parsed =>
        LET V == {n \in 1..Len(lines) : Violates(n)}
        IN V # {} => ErrorOfLine(Min(V))

\* the two errors of validate
UrlRequired ==
    <<"ValidationError", "URL is required for Link type entries">>
ExecRequired ==
    <<"ValidationError",
      "Either Exec key or DBusActivatable=true is required for Application type">>

\* C13: validate returns the URL error exactly for a Link document without
\* url, the Exec error exactly for an Application document without exec whose
\* dbus_activatable is unset or false, and success for every other document,
\* so for every Directory.
C13_Validate ==
    pc = "validated" =>
        LET link == entry.entry_type = "Link" /\ entry.url = <<>>
            app == /\ entry.entry_type = "Application"
                   /\ entry.exec = <<>>
                   /\ entry.dbus_activatable # <<TRUE>>
        IN /\ valid = UrlRequired <=> link
           /\ valid = ExecRequired <=> app
           /\ valid = <<"Ok">> <=> ~link /\ ~app
           /\ entry.entry_type = "Directory" => valid = <<"Ok">>

\* C13 witness: an Application document without exec and with
\* DBusActivatable=false was refused.
C13_Witness ==
    /\ pc = "validated"
    /\ entry.entry_type = "Application"
    /\ entry.exec = <<>>
    /\ entry.dbus_activatable = <<FALSE>>
    /\ valid = ExecRequired

\* the text has a [Desktop Entry] header, no structural violation, a
\* recognized value on its first Type line and a Name line
WellFormedText ==
    /\ \A n \in 1..Len(lines) : ~Violates(n)
    /\ \E n \in 1..Len(lines) :
            HeaderLine(lines[n]) /\ HeaderName(lines[n]) = <<"Desktop Entry">>
    /\ MainGroupLines(<<"Type">>) # {}
    /\ ValueOfLine(Min(MainGroupLines(<<"Type">>)))
            \in {<<"Application">>, <<"Link">>, <<"Directory">>}
    /\ MainGroupLines(<<"Name">>) # {}

\* the type spelled on the first Type line of the main group
TypeOfText == ValueOfLine(Min(MainGroupLines(<<"Type">>)))

\* C14: parse never returns ValidationError; it returns a document for a
\* well-formed Link text without URL line and for a well-formed Application
\* text with neither an Exec line nor a DBusActivatable=true line, and
\* validate called on that document returns a ValidationError.
C14_ValidationExplicit ==
    Parsed =>
        /\ result.kind = "Err" => result.err[1] # "ValidationError"
        /\ (/\ WellFormedText
            /\ \/ /\ TypeOfText = <<"Link">>
                  /\ MainGroupLines(<<"URL">>) = {}
               \/ /\ TypeOfText = <<"Application">>
                  /\ MainGroupLines(<<"Exec">>) = {}
                  /\ \A n \in MainGroupLines(<<"DBusActivatable">>) :
                        ValueOfLine(n) # <<"true">>)
           => /\ result.kind = "Ok"
              /\ pc = "validated" => valid[1] = "ValidationError"

\* C14 witness: a Link text with Exec and without URL was parsed to a document that
\* validate then refused.
C14_Witness ==
    /\ pc = "validated"
    /\ result.kind = "Ok"
    /\ lines = << <<"[", "Desktop Entry", "]">>, <<"Type", "=", "Link">>,
                  <<"Name", "=", "x">>, <<"Exec", "=", "a">> >>
    /\ valid = UrlRequired

\* the string keys and the boolean keys of the main group, each with the
\* field of the document it is read into
StringKeys ==
    { <<"Version", "version">>, <<"TryExec", "try_exec">>, <<"Exec", "exec">>,
      <<"Path", "path">>, <<"StartupWMClass", "startup_wm_class">>,
      <<"URL", "url">> }
BoolKeys ==
    { <<"NoDisplay", "no_display">>, <<"Hidden", "hidden">>,
      <<"Terminal", "terminal">>, <<"DBusActivatable", "dbus_activatable">>,
      <<"StartupNotify", "startup_notify">>,
      <<"PrefersNonDefaultGPU", "prefers_non_default_gpu">>,
      <<"SingleMainWindow", "single_main_window">> }

\* the boolean a literal stands for, if any
BoolOf(v) ==
    IF v = <<"true">> THEN <<TRUE>>
    ELSE IF v = <<"false">> THEN <<FALSE>>
    ELSE <<>>

\* the lines of the key k in the main group that carry no locale tag
UntaggedLines(k) == {n \in MainGroupLines(<<k>>) : Untagged(n)}

\* C15: in a parsed document every string field and every boolean field of
\* the main group comes from the first line of its key that carries no locale
\* tag, and is unset when the key has no such line.
C15_FirstUntagged ==
    (Parsed /\ result.kind = "Ok") =>
        /\ \A kf \in StringKeys :
            entry[kf[2]] =
                IF UntaggedLines(kf[1]) = {} THEN <<>>
                ELSE <<ValueOfLine(Min(UntaggedLines(kf[1])))>>
        /\ \A kf \in BoolKeys :
            entry[kf[2]] =
                IF UntaggedLines(kf[1]) = {} THEN <<>>
                ELSE BoolOf(ValueOfLine(Min(UntaggedLines(kf[1]))))

\* C16: a well-formed text parses whatever its boolean literals are, and a
\* boolean field of the document is Some(true) exactly when the first line of
\* its key has the value true, Some(false) exactly when it has the value
\* false, and unset for every other value (True, 1, true followed by a
\* space).
C16_BoolLiterals ==
    (Parsed /\ WellFormedText) =>
        /\ result.kind = "Ok"
        /\ \A kf \in BoolKeys :
            LET L == MainGroupLines(<<kf[1]>>)
                v == ValueOfLine(Min(L))
            IN /\ entry[kf[2]] = <<TRUE>> <=> (L # {} /\ v = <<"true">>)
               /\ entry[kf[2]] = <<FALSE>> <=> (L # {} /\ v = <<"false">>)
               /\ (L # {} /\ v \notin {<<"true">>, <<"false">>})
                  => entry[kf[2]] = <<>>

\* C16 witness: Terminal=true with a space behind it, followed by
\* Terminal=true, was parsed and left terminal unset.
C16_Witness ==
    /\ Parsed
    /\ result.kind = "Ok"
    /\ Len(lines) = 5
    /\ lines[4] = <<"Terminal", "=", "true", " ">>
    /\ lines[5] = <<"Terminal", "=", "true">>
    /\ entry.terminal = <<>>

\* the list keys of the main group, each with its field of the document
ListKeys ==
    { <<"OnlyShowIn", "only_show_in">>, <<"NotShowIn", "not_show_in">>,
      <<"Actions", "actions">>, <<"MimeType", "mime_type">>,
      <<"Categories", "categories">>, <<"Implements", "implements">> }

\* the places of v where a segment starts: a piece other than ';' at the
\* start of v or behind a ';'
SegmentStarts(v) ==
    {i \in 1..Len(v) : v[i] # ";" /\ (i = 1 \/ v[i - 1] = ";")}

\* the segment that starts at i: the pieces up to the next ';' or the end
SegmentAt(v, i) ==
    LET j == CHOOSE j \in i..Len(v) :
                /\ \A k \in i..j : v[k] # ";"
                /\ (j = Len(v) \/ v[j + 1] = ";")
    IN SubSeq(v, i, j)

\* the non-empty segments of v between its ';', in order
Segments(v) ==
    LET S == SegmentStarts(v)
        nth(k) == CHOOSE i \in S : Cardinality({j \in S : j <= i}) = k
    IN [k \in 1..Cardinality(S) |-> SegmentAt(v, nth(k))]

\* C17: in a parsed document every list field is the sequence of the
\* non-empty segments, in order, of the value of the first line of its key
\* split on ';', and is unset when the key has no line or the sequence is
\* empty; so a list field is unset or a non-empty list without empty string.
C17_ListFields ==
    (Parsed /\ result.kind = "Ok") =>
        \A kf \in ListKeys :
            LET L == MainGroupLines(<<kf[1]>>)
                segs == Segments(ValueOfLine(Min(L)))
                field == entry[kf[2]]
            IN /\ field = IF L = {} \/ segs = <<>> THEN <<>> ELSE <<segs>>
               /\ field # <<>> =>
                    /\ field[1] # <<>>
                    /\ \A i \in 1..Len(field[1]) : field[1][i] # <<>>

\* C17 witness: Categories=;; followed by Categories=A;B; left categories
\* unset.
C17_Witness ==
    /\ Parsed
    /\ result.kind = "Ok"
    /\ Len(lines) = 5
    /\ lines[4] = <<"Categories", "=", ";", ";">>
    /\ lines[5] = <<"Categories", "=", "A", ";", "B", ";">>
    /\ entry.categories = <<>>

\* line n is a key-value line of the group named g: the nearest header
\* above it is [g]
InGroup(n, g) ==
    /\ EntryLine(lines[n])
    /\ Has(lines[n], "=")
    /\ \E h \in 1..(n - 1) :
        /\ HeaderLine(lines[h])
        /\ HeaderName(lines[h]) = g
        /\ \A j \in (h + 1)..(n - 1) : ~HeaderLine(lines[j])

\* the lines of group g that carry the key k, and the keys of group g
GroupLines(g, k) == {n \in 1..Len(lines) : InGroup(n, g) /\ BareKey(lines[n]) = k}
GroupKeys(g) == {BareKey(lines[n]) : n \in {m \in 1..Len(lines) : InGroup(m, g)}}

\* the numbers of S in rising order
Ascending(S) ==
    [k \in 1..Cardinality(S) |->
        CHOOSE i \in S : Cardinality({j \in S : j <= i}) = k]

\* the locale tag of a tagged key-value line: what stands between the first
\* '[' of its key part and the next ']'
TagOf(l) ==
    LET behind == After(KeyPart(l), FirstIdx(KeyPart(l), "["))
    IN Before(behind, FirstIdx(behind, "]"))

\* the stored entry e is line n: same key, same value, same locale tag
StoresLine(e, n) ==
    /\ e.key = BareKey(lines[n])
    /\ e.value = ValueOfLine(n)
    /\ IF Untagged(n) THEN e.locale = <<>>
       ELSE e.locale # <<>> /\ to_string_repr(e.locale[1]) = TagOf(lines[n])

\* the entries es are the lines of group g with key k, in file order
StoresLines(es, g, k) ==
    LET ns == Ascending(GroupLines(g, k))
    IN /\ Len(es) = Len(ns)
       /\ \A i \in 1..Len(ns) : StoresLine(es[i], ns[i])

\* the 25 keys of the schema
SchemaKeys ==
    {<<"Type">>, <<"Version">>, <<"Name">>, <<"GenericName">>,
     <<"NoDisplay">>, <<"Comment">>, <<"Icon">>, <<"Hidden">>,
     <<"OnlyShowIn">>, <<"NotShowIn">>, <<"DBusActivatable">>,
     <<"TryExec">>, <<"Exec">>, <<"Path">>, <<"Terminal">>, <<"Actions">>,
     <<"MimeType">>, <<"Categories">>, <<"Implements">>, <<"Keywords">>,
     <<"StartupNotify">>, <<"StartupWMClass">>, <<"URL">>,
     <<"PrefersNonDefaultGPU">>, <<"SingleMainWindow">>}

\* C18: the keys of unknown_keys of a parsed document are the keys of the
\* [Desktop Entry] group of the text outside the 25 keys of the schema, and
\* each is mapped to all its lines in file order, with their values and
\* locale tags.
C18_UnknownKeys ==
    (Parsed /\ result.kind = "Ok") =>
        /\ Cardinality(SchemaKeys) = 25
        /\ DOMAIN entry.unknown_keys = GroupKeys(<<"Desktop Entry">>) \ SchemaKeys
        /\ \A k \in DOMAIN entry.unknown_keys :
            StoresLines(entry.unknown_keys[k], <<"Desktop Entry">>, k)

\* C18 witness: X-Foo[fr]=w and X-Foo=v of the main group are both stored
\* under X-Foo, the tagged line first.
C18_Witness ==
    /\ Parsed
    /\ result.kind = "Ok"
    /\ Len(lines) = 5
    /\ lines[4] = <<"X-Foo", "[", "fr", "]", "=", "w">>
    /\ lines[5] = <<"X-Foo", "=", "v">>
    /\ DOMAIN entry.unknown_keys = {<<"X-Foo">>}
    /\ Len(entry.unknown_keys[<<"X-Foo">>]) = 2
    /\ entry.unknown_keys[<<"X-Foo">>][1].value = <<"w">>
    /\ entry.unknown_keys[<<"X-Foo">>][1].locale # <<>>

\* the names of the headers of the text
HeaderNames == {HeaderName(lines[n]) : n \in {m \in 1..Len(lines) : HeaderLine(lines[m])}}

\* C19: the keys of additional_groups of a parsed document are the header
\* names of the text other than Desktop Entry; each group carries its own
\* name, has the keys of its key-value lines, and maps each key to all its
\* lines in file order, duplicates and locale-tagged lines included.
C19_AdditionalGroups ==
    (Parsed /\ result.kind = "Ok") =>
        /\ DOMAIN entry.additional_groups = HeaderNames \ {<<"Desktop Entry">>}
        /\ \A g \in DOMAIN entry.additional_groups :
            LET group == entry.additional_groups[g]
            IN /\ group.name = g
               /\ DOMAIN group.entries = GroupKeys(g)
               /\ \A k \in DOMAIN group.entries :
                    StoresLines(group.entries[k], g, k)

\* C19 witness: the group Foo holds X-Foo=v, X-Foo[fr]=w and X-Foo=v again,
\* all three stored under the key X-Foo of that group and none in
\* unknown_keys.
C19_Witness ==
    /\ Parsed
    /\ result.kind = "Ok"
    /\ Len(lines) = 7
    /\ lines[4] = <<"[", "Foo", "]">>
    /\ lines[5] = <<"X-Foo", "=", "v">>
    /\ lines[6] = <<"X-Foo", "[", "fr", "]", "=", "w">>
    /\ lines[7] = <<"X-Foo", "=", "v">>
    /\ DOMAIN entry.additional_groups = {<<"Foo">>}
    /\ DOMAIN entry.additional_groups[<<"Foo">>].entries = {<<"X-Foo">>}
    /\ Len(entry.additional_groups[<<"Foo">>].entries[<<"X-Foo">>]) = 3
    /\ entry.unknown_keys = EmptyMap

\* the lines of the text serialize returned: what stands between its '\n'
OutLines ==
    LET E == Ascending({i \in 1..Len(output) : output[i] = "\n"})
    IN [k \in 1..Len(E) |->
            SubSeq(output, IF k = 1 THEN 1 ELSE E[k - 1] + 1, E[k] - 1)]

\* the schema order of the claim: each key with its field of the document
SchemaOrder ==
    << <<"Version", "version">>, <<"Name", "name">>,
       <<"GenericName", "generic_name">>, <<"NoDisplay", "no_display">>,
       <<"Comment", "comment">>, <<"Icon", "icon">>, <<"Hidden", "hidden">>,
       <<"OnlyShowIn", "only_show_in">>, <<"NotShowIn", "not_show_in">>,
       <<"DBusActivatable", "dbus_activatable">>, <<"TryExec", "try_exec">>,
       <<"Exec", "exec">>, <<"Path", "path">>, <<"Terminal", "terminal">>,
       <<"Actions", "actions">>, <<"MimeType", "mime_type">>,
       <<"Categories", "categories">>, <<"Implements", "implements">>,
       <<"Keywords", "keywords">>, <<"StartupNotify", "startup_notify">>,
       <<"StartupWMClass", "startup_wm_class">>, <<"URL", "url">>,
       <<"PrefersNonDefaultGPU", "prefers_non_default_gpu">>,
       <<"SingleMainWindow", "single_main_window">> >>

\* the place of the key of line l in the schema order; the unknown keys
\* come behind all of them
Rank(l) ==
    IF \E k \in 1..Len(SchemaOrder) : <<SchemaOrder[k][1]>> = BareKey(l)
    THEN CHOOSE k \in 1..Len(SchemaOrder) : <<SchemaOrder[k][1]>> = BareKey(l)
    ELSE Len(SchemaOrder) + 1

\* the field named f of the document is set (name always is)
IsSet(f) == f = "name" \/ entry[f] # <<>>

\* how many entries the map m of key to entries holds
RECURSIVE CountEntries(_)
CountEntries(m) ==
    IF DOMAIN m = {} THEN 0
    ELSE LET k == CHOOSE k \in DOMAIN m : TRUE
         IN Len(m[k]) + CountEntries([j \in (DOMAIN m) \ {k} |-> m[j]])

\* C20: the text serialize returns starts with the leading comments, then
\* has [Desktop Entry] and Type; then one or more lines for each set field
\* and none for an unset one, the keys in schema order whatever the order of
\* the lines parsed; then the unknown keys; then, for each additional group,
\* a blank line, its header and its entries.
C20_SchemaOrder ==
    pc \in {"serialized", "reparsed"} =>
        LET out == OutLines
            c == Len(entry.comments)
            blanks == {i \in (c + 3)..Len(out) : out[i] = <<>>}
            mainEnd == IF blanks = {} THEN Len(out) ELSE Min(blanks) - 1
            M == (c + 3)..mainEnd
            R == (mainEnd + 1)..Len(out)
            headers == {i \in R : out[i] # <<>> /\ out[i][1] = "["}
            groupOf(i) == SubSeq(out[i], 2, Len(out[i]) - 1)
            bodyOf(i) == {j \in (i + 1)..Len(out) :
                            \A n \in (i + 1)..j : out[n] # <<>>}
        IN /\ Len(out) >= c + 2
           /\ \A i \in 1..c :
                out[i] = IF entry.comments[i].is_blank THEN <<>>
                         ELSE <<"#">> \o entry.comments[i].content
           /\ out[c + 1] = <<"[", "Desktop Entry", "]">>
           /\ out[c + 2] = <<"Type", "=", entry.entry_type>>
           /\ \A i \in M : Has(out[i], "=")
           /\ \A i, j \in M : i < j => Rank(out[i]) <= Rank(out[j])
           /\ \A k \in 1..Len(SchemaOrder) :
                IsSet(SchemaOrder[k][2])
                <=> \E i \in M : BareKey(out[i]) = <<SchemaOrder[k][1]>>
           /\ \A i \in M :
                Rank(out[i]) > Len(SchemaOrder)
                => BareKey(out[i]) \in DOMAIN entry.unknown_keys
           /\ \A k \in DOMAIN entry.unknown_keys :
                Cardinality({i \in M : BareKey(out[i]) = k})
                    = Len(entry.unknown_keys[k])
           /\ \A i \in R : out[i] = <<>> => (i + 1) \in headers
           /\ \A i \in headers : out[i - 1] = <<>>
           /\ Cardinality(headers) = Cardinality(DOMAIN entry.additional_groups)
           /\ {groupOf(i) : i \in headers} = DOMAIN entry.additional_groups
           /\ \A i \in headers :
                /\ \A j \in bodyOf(i) :
                    /\ Has(out[j], "=")
                    /\ BareKey(out[j])
                        \in DOMAIN entry.additional_groups[groupOf(i)].entries
                /\ Cardinality(bodyOf(i)) =
                    CountEntries(entry.additional_groups[groupOf(i)].entries)

\* C20 witness: the text whose lines were URL and then Version was written
\* with Version before Name and URL behind it.
C20_Witness ==
    /\ pc = "serialized"
    /\ Len(lines) = 5
    /\ lines[4] = <<"URL", "=", "u">>
    /\ lines[5] = <<"Version", "=", "1.5">>
    /\ output = TextOf(<< <<"[", "Desktop Entry", "]">>,
                          <<"Type", "=", "Application">>,
                          <<"Version", "=", "1.5">>,
                          <<"Name", "=", "x">>,
                          <<"URL", "=", "u">> >>, <<"\n">>)

\* the first line of the text that is the header [g], and the first line of
\* group g that carries the key k
HeaderAt(g) ==
    Min({n \in 1..Len(lines) : HeaderLine(lines[n]) /\ HeaderName(lines[n]) = g})
FirstOf(g, k) == Min(GroupLines(g, k))

\* the place of the header [g] in the lines out, and the place of the first
\* line with key k among the lines behind place h up to the next blank line
OutHeaderAt(out, g) ==
    Min({i \in 1..Len(out) : out[i] = <<"[">> \o g \o <<"]">>})
OutFirstOf(out, h, k) ==
    Min({i \in (h + 1)..Len(out) :
            /\ \A j \in (h + 1)..i : out[j] # <<>>
            /\ Has(out[i], "=")
            /\ BareKey(out[i]) = k})

\* C21: serialize writes the unknown keys, the additional groups and the
\* keys of each additional group in the order of their first appearance in
\* the text parsed, so the text it returns is a function of the text parsed.
C21_InsertionOrder ==
    pc \in {"serialized", "reparsed"} =>
        LET out == OutLines
            main == OutHeaderAt(out, <<"Desktop Entry">>)
            ag == entry.additional_groups
        IN /\ \A k1, k2 \in DOMAIN entry.unknown_keys :
                FirstOf(<<"Desktop Entry">>, k1) < FirstOf(<<"Desktop Entry">>, k2)
                => OutFirstOf(out, main, k1) < OutFirstOf(out, main, k2)
           /\ \A g1, g2 \in DOMAIN ag :
                HeaderAt(g1) < HeaderAt(g2)
                => OutHeaderAt(out, g1) < OutHeaderAt(out, g2)
           /\ \A g \in DOMAIN ag :
                \A k1, k2 \in DOMAIN ag[g].entries :
                    FirstOf(g, k1) < FirstOf(g, k2)
                    => OutFirstOf(out, OutHeaderAt(out, g), k1)
                        < OutFirstOf(out, OutHeaderAt(out, g), k2)

\* C22: a text that parses has a group header, and its first group header
\* is [Desktop Entry].
C22_FirstGroup ==
    (Parsed /\ result.kind = "Ok") =>
        LET H == {n \in 1..Len(lines) : HeaderLine(lines[n])}
        IN H # {} /\ HeaderName(lines[Min(H)]) = <<"Desktop Entry">>

\* C23: a query with an encoding gets the default or the value of a stored
\* variant that has the encoding of the query; it never gets a variant stored
\* with another encoding or with none.
C23_EncodingKept ==
    (pc = "resolved" /\ query.encoding # <<>>) =>
        \/ resolved = self.default
        \/ \E l \in DOMAIN self.localized :
            /\ l.encoding = query.encoding
            /\ resolved = self.localized[l]

\* C24: a Locale whose components hold none of '_', '.' and '@' is what
\* from_string returns on its to_string_repr, in all four components.
C24_Recomposition ==
    pc = "reread" =>
        /\ locale2.lang = locale.lang
        /\ locale2.country = locale.country
        /\ locale2.encoding = locale.encoding
        /\ locale2.modifier = locale.modifier

\* C24 witness: a Locale with an empty language, an empty country, the
\* encoding ab and an empty modifier was written as "_.ab@" and read back.
C24_Witness ==
    /\ pc = "reread"
    /\ locale = [lang |-> <<>>, country |-> Some(<<>>),
                 encoding |-> Some(<<"a", "b">>), modifier |-> Some(<<>>)]
    /\ repr = <<"_", ".", "a", "b", "@">>
    /\ locale2 = locale

\* the Comment the parser records for line n
CommentOf(n) ==
    [line_number |-> n,
     content |-> IF Blank(lines[n]) THEN <<>> ELSE Tail(Trim(lines[n])),
     is_blank |-> Blank(lines[n])]

\* the blank and '#' lines before the first group header, in file order
LeadingLines ==
    LET H == {n \in 1..Len(lines) : HeaderLine(lines[n])}
    IN Ascending({n \in 1..Len(lines) :
            /\ Blank(lines[n]) \/ CommentLine(lines[n])
            /\ \A h \in H : n < h})

\* C25: the comments of a parsed document are the records of the blank and
\* '#' lines before the first group header, in file order, and of no line
\* after a header; a well-formed text parses whatever blank and '#' lines
\* follow its headers; the text serialize returns starts with one line per
\* recorded comment, then [Desktop Entry], and no later line starts with '#'.
C25_LeadingComments ==
    /\ (Parsed /\ result.kind = "Ok") =>
            /\ Len(entry.comments) = Len(LeadingLines)
            /\ \A i \in 1..Len(LeadingLines) :
                    entry.comments[i] = CommentOf(LeadingLines[i])
    /\ (Parsed /\ WellFormedText) => result.kind = "Ok"
    /\ pc \in {"serialized", "reparsed"} =>
            LET out == OutLines
                c == Len(entry.comments)
            IN /\ Len(out) > c
               /\ \A i \in 1..c :
                    out[i] = IF entry.comments[i].is_blank THEN <<>>
                             ELSE <<"#">> \o entry.comments[i].content
               /\ out[c + 1] = <<"[", "Desktop Entry", "]">>
               /\ \A i \in (c + 2)..Len(out) :
                    out[i] = <<>> \/ out[i][1] # "#"

\* C25 witness: " # c " and a line of one space stand before [Desktop Entry]
\* and "#d" after the Name line; the document has the two leading comments
\* and serialize returned "# c", an empty line and the three lines of the
\* main group.
C25_Witness ==
    /\ pc = "serialized"
    /\ Len(lines) = 6
    /\ lines[1] = <<" ", "#", " ", "c", " ">>
    /\ lines[2] = <<" ">>
    /\ lines[3] = <<"[", "Desktop Entry", "]">>
    /\ lines[6] = <<"#", "d">>
    /\ entry.comments =
        << [line_number |-> 1, content |-> <<" ", "c">>, is_blank |-> FALSE],
           [line_number |-> 2, content |-> <<>>, is_blank |-> TRUE] >>
    /\ Len(OutLines) = 5
    /\ OutLines[1] = <<"#", " ", "c">>
    /\ OutLines[2] = <<>>

\* the localized keys with their fields, and the value a line gives to one
LocalizedKeys ==
    { <<"Name", "name">>, <<"GenericName", "generic_name">>,
      <<"Comment", "comment">>, <<"Icon", "icon">>,
      <<"Keywords", "keywords">> }
LocalizedValueOf(k, n) ==
    IF k = "Keywords" THEN SplitList(ValueOfLine(n)) ELSE ValueOfLine(n)

\* the greatest number of S
Max(S) == CHOOSE x \in S : \A y \in S : y <= x

\* the lines of the key k in the main group that carry the locale tag t
TaggedLines(k, t) ==
    {n \in MainGroupLines(<<k>>) : ~Untagged(n) /\ TagOf(lines[n]) = t}

\* the value v of a localized field holds what the lines of the key k give:
\* under every tag the last line that carries it, one variant per tag, and
\* as default the last untagged line
LastWins(v, k) ==
    LET tags == {TagOf(lines[n]) :
                    n \in {m \in MainGroupLines(<<k>>) : ~Untagged(m)}}
    IN /\ DOMAIN v.localized = {from_string(t) : t \in tags}
       /\ Cardinality(DOMAIN v.localized) = Cardinality(tags)
       /\ \A t \in tags :
            v.localized[from_string(t)] =
                LocalizedValueOf(k, Max(TaggedLines(k, t)))
       /\ UntaggedLines(k) # {} =>
            v.default = LocalizedValueOf(k, Max(UntaggedLines(k)))

\* C26: in a parsed document each of Name, GenericName, Comment, Icon and
\* Keywords that has a line in the main group holds, under every locale tag
\* of its lines, the value of the last line with that tag, one variant per
\* distinct tag, and as default the value of its last untagged line.
C26_LastWins ==
    (Parsed /\ result.kind = "Ok") =>
        \A kf \in LocalizedKeys :
            IF MainGroupLines(<<kf[1]>>) = {}
            THEN entry[kf[2]] = None
            ELSE IF kf[2] = "name" THEN LastWins(entry.name, kf[1])
            ELSE /\ entry[kf[2]] # None
                 /\ LastWins(Unwrap(entry[kf[2]]), kf[1])

\* C26 witness: after Name=x the text has Name[fr]=z, Name=y and Name[fr]=w:
\* the name has the default y and the one variant w under fr.
C26_Witness ==
    /\ Parsed
    /\ result.kind = "Ok"
    /\ Len(lines) = 6
    /\ lines[3] = <<"Name", "=", "x">>
    /\ lines[4] = <<"Name", "[", "fr", "]", "=", "z">>
    /\ lines[5] = <<"Name", "=", "y">>
    /\ lines[6] = <<"Name", "[", "fr", "]", "=", "w">>
    /\ entry.name.default = <<"y">>
    /\ DOMAIN entry.name.localized = {LocaleNew(<<"fr">>)}
    /\ entry.name.localized[LocaleNew(<<"fr">>)] = <<"w">>

\* C27: to_string_repr applied to what from_string returned on a string
\* returns that string, whatever separators and empty components it has.
C27_Lossless ==
    pc = "recomposed" => repr = token

\* C27 witness: the string "_.@.@" of separators only, whose language,
\* encoding and modifier are empty and whose country is ".@", was decomposed
\* and written back.
C27_Witness ==
    /\ pc = "recomposed"
    /\ token = <<"_", ".", "@", ".", "@">>
    /\ locale = [lang |-> <<>>, country |-> Some(<<".", "@">>),
                 encoding |-> Some(<<>>), modifier |-> Some(<<>>)]
    /\ repr = token

\* C28: when the value of one key-value line of a key other than Type of a
\* text that parsed is replaced by another string without line break, the
\* text parses as well, to a document of the same type.
C28_ValuesNeverFail ==
    pc = "parsed again" =>
        /\ result2.kind = "Ok"
        /\ entry2.entry_type = entry.entry_type

\* C28 witness: the Name line of the minimal file followed by Terminal=true
\* and X-Foo=v got the value "[x]", and the text parsed again.
C28_Witness ==
    /\ pc = "parsed again"
    /\ Len(lines) = 5
    /\ lines[4] = <<"Terminal", "=", "true">>
    /\ output = TextOf(<< <<"[", "Desktop Entry", "]">>,
                          <<"Type", "=", "Application">>,
                          <<"Name", "=", "[", "x", "]">>,
                          <<"Terminal", "=", "true">>,
                          <<"X-Foo", "=", "v">> >>, <<"\n">>)
    /\ result2.kind = "Ok"
    /\ entry2.name.default = <<"[", "x", "]">>

\* C29: get returns the default or the value of a variant stored under a
\* locale that has the language of the query, and the default when no
\* variant is stored.
C29_SameLanguage ==
    pc = "resolved" =>
        /\ \/ resolved = self.default
           \/ \E l \in DOMAIN self.localized :
                /\ l.lang = query.lang
                /\ resolved = self.localized[l]
        /\ DOMAIN self.localized = {} => resolved = self.default

\* C29 witness: variants are stored under fr and fr_US only, and the query
\* en_US got the default, which no variant equals.
C29_Witness ==
    /\ pc = "resolved"
    /\ DOMAIN self.localized =
         {LocaleNew(<<"fr">>),
          [lang |-> <<"fr">>, country |-> Some(<<"US">>),
           encoding |-> None, modifier |-> None]}
    /\ query = [lang |-> <<"en">>, country |-> Some(<<"US">>),
                encoding |-> None, modifier |-> None]
    /\ resolved = self.default
    /\ \A l \in DOMAIN self.localized : self.localized[l] # self.default

\* C30: the text serialize returns for a parsed document parses, to a
\* document with the same typed fields, localized variants, unknown_keys,
\* additional_groups and leading comments.
C30_FixedPoint ==
    pc = "reparsed" =>
        /\ result2.kind = "Ok"
        /\ entry2 = entry

=============================================================================
